---- MODULE Spec2Model ----
(***************************************************************************)
(* RBAC core of rbac-react-app: the access evaluator hasPermission         *)
(* (src/utils/rbacUtils.ts) and the permission compiler                    *)
(* transformToUserPermissions (src/store/slices/rbacSlice.ts).             *)
(*                                                                         *)
(* A resource path is a JavaScript string; it is modelled as a sequence of *)
(* characters so that split('/'), join('/') and startsWith act on the raw  *)
(* string.  An optional value (T | undefined) is a sequence of length 0 or *)
(* 1: <<>> is undefined, <<v>> is the value v.  Arrays are sequences.      *)
(***************************************************************************)
EXTENDS Integers, Sequences, FiniteSets, TLC

VARIABLES
    permissionMatrix,   \* PermissionMatrix[]: the raw rows
    resources,          \* Resource[]: the resources lookup table
    actions,            \* Action[]: the actions lookup table
    currentUserRoleId,  \* the active role id, optional
    now,                \* the clock read by `new Date()`
    userPermissions,    \* UserPermission[]: the compiled index
    request,            \* the arguments of the last hasPermission call
    result,             \* what the last hasPermission call returned
    threw,              \* whether the last call raised an error
    pc,                 \* "input" before a call, "done" after it; in the store,
                        \* the action dispatched last
    roles,              \* Role[]: the roles lookup table
    stateWorkflowStage, \* state.workflowStage: the store's workflow stage, optional
    isLoading,          \* RBACState.isLoading
    error,              \* RBACState.error, optional
    inflight,           \* the thunks dispatched and not yet settled
    rendered            \* what RBACGuard rendered last, with its props

\* the variables added by the store and the components
others == <<roles, stateWorkflowStage, isLoading, error, inflight, rendered>>

vars == <<permissionMatrix, resources, actions, currentUserRoleId, now,
          userPermissions, request, result, threw, pc, roles, stateWorkflowStage,
          isLoading, error, inflight, rendered>>

-----------------------------------------------------------------------------
(* Optional values and arrays *)

None == <<>>

Some(v) == <<v>>

\* Array.prototype.includes
Includes(arr, x) == \E k \in 1..Len(arr) : arr[k] = x

\* opt?.includes(x): undefined (falsy) when opt is undefined
OptIncludes(opt, x) == opt # None /\ Includes(opt[1], x)

\* a value of a field typed `any` that is not an array: the number n
NonArray(n) == <<"number", n>>

\* the value is present and has no includes method
IsNonArray(opt) == Len(opt) = 2

\* `opt && ...`: undefined and the number 0 are falsy, arrays are truthy
TruthyValue(opt) == opt # None /\ ~(IsNonArray(opt) /\ opt[2] = 0)

-----------------------------------------------------------------------------
(* Strings *)

\* String.prototype.startsWith
StartsWith(s, prefix) ==
    /\ Len(prefix) <= Len(s)
    /\ SubSeq(s, 1, Len(prefix)) = prefix

\* resourcePath.split('/') : the pieces between the slashes, empty ones included
RECURSIVE SplitFrom(_, _, _)
SplitFrom(s, k, cur) ==
    IF k > Len(s) THEN <<cur>>
    ELSE IF s[k] = "/" THEN <<cur>> \o SplitFrom(s, k + 1, <<>>)
    ELSE SplitFrom(s, k + 1, Append(cur, s[k]))

Split(s) == SplitFrom(s, 1, <<>>)

\* .filter(Boolean) on an array of strings: the empty string is falsy
RECURSIVE FilterBoolean(_)
FilterBoolean(arr) ==
    IF arr = <<>> THEN <<>>
    ELSE IF Head(arr) = <<>> THEN FilterBoolean(Tail(arr))
    ELSE <<Head(arr)>> \o FilterBoolean(Tail(arr))

\* segments.join('/')
RECURSIVE Join(_)
Join(segs) ==
    IF segs = <<>> THEN <<>>
    ELSE IF Len(segs) = 1 THEN Head(segs)
    ELSE Head(segs) \o <<"/">> \o Join(Tail(segs))

\* longest requested path, in characters, where the hierarchy is explored
MaxPathLen == 6

\* the characters paths are written with: the separator and one letter
Chars == {"/", "a"}

RECURSIVE StringsOfLen(_)
StringsOfLen(n) ==
    IF n = 0 THEN {<<>>}
    ELSE {Append(s, c) : s \in StringsOfLen(n - 1), c \in Chars}

\* every string of at most n characters
StringsUpTo(n) == UNION {StringsOfLen(k) : k \in 0..n}

\* the paths a call is made with
RequestPaths == StringsUpTo(MaxPathLen)

\* split('/').filter(Boolean) of every requested path, computed once
RequestSegments == [p \in RequestPaths |-> FilterBoolean(Split(p))]

\* pathSegments = resourcePath.split('/').filter(Boolean)
PathSegments(resourcePath) ==
    IF resourcePath \in RequestPaths THEN RequestSegments[resourcePath]
    ELSE FilterBoolean(Split(resourcePath))

\* parentPath = '/' + pathSegments.slice(0, i + 1).join('/')   (i is 0-based)
ParentPath(pathSegments, i) == <<"/">> \o Join(SubSeq(pathSegments, 1, i + 1))

-----------------------------------------------------------------------------
(* hasPermission, src/utils/rbacUtils.ts *)

\* a string is truthy unless it is undefined or empty
Truthy(optStr) == optStr # None /\ optStr[1] # ""

\* Variant: the operands are swapped (workflowStage || paramWorkflowStage)
CurrentStageAmbientFirst(paramWorkflowStage, workflowStage) ==
    IF Truthy(workflowStage) THEN workflowStage ELSE paramWorkflowStage

\* currentStage = paramWorkflowStage || workflowStage
CurrentStage(paramWorkflowStage, workflowStage) ==
    IF Truthy(paramWorkflowStage) THEN paramWorkflowStage ELSE workflowStage

\* userPermissions.find(p => p.resourcePath === path): index of the first
\* entry at that path, 0 when find returns undefined
FindByPath(perms, path) ==
    IF \E k \in 1..Len(perms) : perms[k].resourcePath = path
    THEN CHOOSE k \in 1..Len(perms) :
            /\ perms[k].resourcePath = path
            /\ \A j \in 1..(k - 1) : perms[j].resourcePath # path
    ELSE 0

\* restrictions = permission.metadata.workflowRestrictions[currentStage],
\* guarded by `currentStage && permission.metadata?.workflowRestrictions`
StageRestrictions(permission, currentStage) ==
    IF /\ Truthy(currentStage)
       /\ permission.metadata # None
       /\ permission.metadata[1].workflowRestrictions # None
       /\ currentStage[1] \in DOMAIN permission.metadata[1].workflowRestrictions[1]
    THEN Some(permission.metadata[1].workflowRestrictions[1][currentStage[1]])
    ELSE None

\* Variant: allowedActions is consulted first and settles the stage's verdict
RestrictionDeniesAllowedFirst(restrictions, action) ==
    IF restrictions.allowedActions # None
    THEN ~Includes(restrictions.allowedActions[1], action)
    ELSE OptIncludes(restrictions.restrictedActions, action)

\* Variant: the allowedActions test is missing
RestrictionDeniesNoGate(restrictions, action) ==
    OptIncludes(restrictions.restrictedActions, action)

\* the two early returns of the workflow block
RestrictionDenies(restrictions, action) ==
    \/ OptIncludes(restrictions.restrictedActions, action)
    \/ /\ TruthyValue(restrictions.allowedActions)
       /\ ~Includes(restrictions.allowedActions[1], action)

\* workflow block of the exact match
ExactWorkflowDenies(exactMatch, action, currentStage) ==
    LET restrictions == StageRestrictions(exactMatch, currentStage)
    IN  restrictions # None /\ RestrictionDenies(restrictions[1], action)

\* workflow block of the matched parent
ParentWorkflowDenies(parentPermission, action, currentStage) ==
    LET restrictions == StageRestrictions(parentPermission, currentStage)
    IN  restrictions # None /\ RestrictionDenies(restrictions[1], action)

\* Variant: the workflow block runs before the override test
ExactDecisionWorkflowFirst(exactMatch, action, currentStage) ==
    LET hasAction == Includes(exactMatch.actions, action)
    IN  IF ExactWorkflowDenies(exactMatch, action, currentStage) THEN FALSE
        ELSE hasAction

\* Variant: an action listed in the stage's allowedActions is allowed outright
ExactDecisionAllowedGrants(exactMatch, action, currentStage) ==
    LET hasAction == Includes(exactMatch.actions, action)
        restrictions == StageRestrictions(exactMatch, currentStage)
    IN  IF exactMatch.isOverride THEN hasAction
        ELSE IF ExactWorkflowDenies(exactMatch, action, currentStage) THEN FALSE
        ELSE IF restrictions # None
                /\ OptIncludes(restrictions[1].allowedActions, action) THEN TRUE
        ELSE hasAction

\* the branch taken when an entry sits at the requested path
ExactDecision(exactMatch, action, currentStage) ==
    LET hasAction == Includes(exactMatch.actions, action)
    IN  IF exactMatch.isOverride THEN hasAction
        ELSE IF ExactWorkflowDenies(exactMatch, action, currentStage) THEN FALSE
        ELSE hasAction

\* Variant: the prefix test is turned around (resourcePath.startsWith(p.resourcePath))
HasOverrideAtAncestor(perms, resourcePath, action) ==
    \E k \in 1..Len(perms) :
        /\ StartsWith(resourcePath, perms[k].resourcePath)
        /\ perms[k].isOverride
        /\ ~Includes(perms[k].actions, action)

\* Variant: the prefix test compares whole segments instead of characters
HasOverrideBySegments(perms, resourcePath, action) ==
    \E k \in 1..Len(perms) :
        /\ StartsWith(PathSegments(perms[k].resourcePath), PathSegments(resourcePath))
        /\ perms[k].isOverride
        /\ ~Includes(perms[k].actions, action)

\* hasOverride = userPermissions.some(p => p.resourcePath.startsWith(resourcePath)
\*                                        && p.isOverride && !p.actions.includes(action))
HasOverride(perms, resourcePath, action) ==
    \E k \in 1..Len(perms) :
        /\ StartsWith(perms[k].resourcePath, resourcePath)
        /\ perms[k].isOverride
        /\ ~Includes(perms[k].actions, action)

\* Variant: an override parent bypasses the workflow block, as an exact match does
ParentDecisionOverrideBypass(perms, parentPermission, resourcePath, action, currentStage) ==
    IF HasOverride(perms, resourcePath, action) THEN FALSE
    ELSE IF parentPermission.isOverride THEN TRUE
    ELSE IF ParentWorkflowDenies(parentPermission, action, currentStage) THEN FALSE
    ELSE TRUE

\* what the loop body returns once a parent with the action is found
ParentDecision(perms, parentPermission, resourcePath, action, currentStage) ==
    IF HasOverride(perms, resourcePath, action) THEN FALSE
    ELSE IF ParentWorkflowDenies(parentPermission, action, currentStage) THEN FALSE
    ELSE TRUE

\* Variant: the function ends with `return true`
RECURSIVE HierarchyWalkDefaultAllow(_, _, _, _, _, _)
HierarchyWalkDefaultAllow(perms, pathSegments, i, resourcePath, action, currentStage) ==
    IF i < 0 THEN TRUE
    ELSE LET k == FindByPath(perms, ParentPath(pathSegments, i))
         IN  IF k # 0 /\ Includes(perms[k].actions, action)
             THEN ParentDecision(perms, perms[k], resourcePath, action, currentStage)
             ELSE HierarchyWalkDefaultAllow(perms, pathSegments, i - 1, resourcePath,
                                            action, currentStage)

\* Variant: any entry at a parent path is taken, whether it has the action or not
RECURSIVE HierarchyWalkAnyParent(_, _, _, _, _, _)
HierarchyWalkAnyParent(perms, pathSegments, i, resourcePath, action, currentStage) ==
    IF i < 0 THEN FALSE
    ELSE LET k == FindByPath(perms, ParentPath(pathSegments, i))
         IN  IF k # 0
             THEN ParentDecision(perms, perms[k], resourcePath, action, currentStage)
             ELSE HierarchyWalkAnyParent(perms, pathSegments, i - 1, resourcePath,
                                         action, currentStage)

\* Variant: the nearest ancestor entry decides, with or without the action
RECURSIVE HierarchyWalkNearestEntry(_, _, _, _, _, _)
HierarchyWalkNearestEntry(perms, pathSegments, i, resourcePath, action, currentStage) ==
    IF i < 0 THEN FALSE
    ELSE LET k == FindByPath(perms, ParentPath(pathSegments, i))
         IN  IF k # 0
             THEN Includes(perms[k].actions, action)
                  /\ ParentDecision(perms, perms[k], resourcePath, action, currentStage)
             ELSE HierarchyWalkNearestEntry(perms, pathSegments, i - 1, resourcePath,
                                            action, currentStage)

\* Variant: a parent filtered out by its stage rules is passed over
RECURSIVE HierarchyWalkPastFiltered(_, _, _, _, _, _)
HierarchyWalkPastFiltered(perms, pathSegments, i, resourcePath, action, currentStage) ==
    IF i < 0 THEN FALSE
    ELSE LET k == FindByPath(perms, ParentPath(pathSegments, i))
         IN  IF /\ k # 0
                /\ Includes(perms[k].actions, action)
                /\ ~ParentWorkflowDenies(perms[k], action, currentStage)
             THEN ParentDecision(perms, perms[k], resourcePath, action, currentStage)
             ELSE HierarchyWalkPastFiltered(perms, pathSegments, i - 1, resourcePath,
                                            action, currentStage)

\* for (let i = pathSegments.length - 1; i >= 0; i--) { ... }  return false
RECURSIVE HierarchyWalk(_, _, _, _, _, _)
HierarchyWalk(perms, pathSegments, i, resourcePath, action, currentStage) ==
    IF i < 0 THEN FALSE
    ELSE LET k == FindByPath(perms, ParentPath(pathSegments, i))
         IN  IF k # 0 /\ Includes(perms[k].actions, action)
             THEN ParentDecision(perms, perms[k], resourcePath, action, currentStage)
             ELSE HierarchyWalk(perms, pathSegments, i - 1, resourcePath, action,
                                currentStage)

\* Variant: an exact entry without the action falls through to the hierarchy
hasPermissionInheritWhenLacking(perms, params, workflowStage) ==
    LET currentStage == CurrentStage(params.workflowStage, workflowStage)
        k == FindByPath(perms, params.resourcePath)
        pathSegments == PathSegments(params.resourcePath)
    IN  IF k # 0 /\ (perms[k].isOverride \/ Includes(perms[k].actions, params.action))
        THEN ExactDecision(perms[k], params.action, currentStage)
        ELSE HierarchyWalk(perms, pathSegments, Len(pathSegments) - 1,
                           params.resourcePath, params.action, currentStage)

\* params = {resourcePath, action, workflowStage?}; workflowStage is the third argument
hasPermission(perms, params, workflowStage) ==
    LET currentStage == CurrentStage(params.workflowStage, workflowStage)
        k == FindByPath(perms, params.resourcePath)
        pathSegments == PathSegments(params.resourcePath)
    IN  IF k # 0 THEN ExactDecision(perms[k], params.action, currentStage)
        ELSE HierarchyWalk(perms, pathSegments, Len(pathSegments) - 1,
                           params.resourcePath, params.action, currentStage)

-----------------------------------------------------------------------------
(* hasPermission on metadata of any shape.  UserPermission.metadata is typed
   `any`: restrictedActions and allowedActions may hold a value that is not an
   array.  Such a value is written as the pair <<"number", n>>; calling
   .includes on it raises a TypeError. *)

\* the workflow block raises: restrictedActions?.includes(action) on a number,
\* or, when that test is false, allowedActions && !allowedActions.includes(action)
\* on a truthy number
RestrictionRaises(restrictions, action) ==
    \/ IsNonArray(restrictions.restrictedActions)
    \/ /\ ~OptIncludes(restrictions.restrictedActions, action)
       /\ IsNonArray(restrictions.allowedActions)
       /\ restrictions.allowedActions[2] # 0

\* the workflow block of an entry raises
WorkflowRaises(permission, action, currentStage) ==
    LET restrictions == StageRestrictions(permission, currentStage)
    IN  restrictions # None /\ RestrictionRaises(restrictions[1], action)

\* the loop reaches the workflow block of a parent, and that block raises
RECURSIVE HierarchyWalkRaises(_, _, _, _, _, _)
HierarchyWalkRaises(perms, pathSegments, i, resourcePath, action, currentStage) ==
    IF i < 0 THEN FALSE
    ELSE LET k == FindByPath(perms, ParentPath(pathSegments, i))
         IN  IF k # 0 /\ Includes(perms[k].actions, action)
             THEN /\ ~HasOverride(perms, resourcePath, action)
                  /\ WorkflowRaises(perms[k], action, currentStage)
             ELSE HierarchyWalkRaises(perms, pathSegments, i - 1, resourcePath,
                                      action, currentStage)

\* some entry holds, in the rules of some stage, a value without includes
\* (no call can raise otherwise)
HoldsNonArray(perms) ==
    \E k \in 1..Len(perms) :
        /\ perms[k].metadata # None
        /\ perms[k].metadata[1].workflowRestrictions # None
        /\ \E s \in DOMAIN perms[k].metadata[1].workflowRestrictions[1] :
              LET rule == perms[k].metadata[1].workflowRestrictions[1][s]
              IN  IsNonArray(rule.restrictedActions) \/ IsNonArray(rule.allowedActions)

\* the call raises an error instead of returning
hasPermissionRaises(perms, params, workflowStage) ==
    /\ HoldsNonArray(perms)
    /\ LET currentStage == CurrentStage(params.workflowStage, workflowStage)
           k == FindByPath(perms, params.resourcePath)
           pathSegments == PathSegments(params.resourcePath)
       IN  IF k # 0
           THEN /\ ~perms[k].isOverride
                /\ WorkflowRaises(perms[k], params.action, currentStage)
           ELSE HierarchyWalkRaises(perms, pathSegments, Len(pathSegments) - 1,
                                    params.resourcePath, params.action, currentStage)

-----------------------------------------------------------------------------
(* transformToUserPermissions, src/store/slices/rbacSlice.ts *)

\* JSON.parse on the metadata texts the rows carry: the parsed object, or an
\* error for text that is not JSON
JsonParse(text) ==
    CASE text = "{}" ->
            [ok |-> TRUE, value |-> [workflowRestrictions |-> None]]
      [] text = "{\"workflowRestrictions\":{\"draft\":{\"restrictedActions\":[\"READ\"]}}}" ->
            [ok |-> TRUE,
             value |-> [workflowRestrictions |->
                          Some([s \in {"draft"} |->
                                  [restrictedActions |-> Some(<<"READ">>),
                                   allowedActions |-> None]])]]
      [] text = "{\"workflowRestrictions\":{\"draft\":{\"allowedActions\":[\"READ\"]}}}" ->
            [ok |-> TRUE,
             value |-> [workflowRestrictions |->
                          Some([s \in {"draft"} |->
                                  [restrictedActions |-> None,
                                   allowedActions |-> Some(<<"READ">>)]])]]
      [] OTHER -> [ok |-> FALSE, value |-> [workflowRestrictions |-> None]]

\* new Map(resources.map(r => [r.ResourceId, r])).get(id): the last resource
\* with that id, undefined when there is none
ResourceMapGet(resourceList, id) ==
    LET hits == {k \in 1..Len(resourceList) : resourceList[k].ResourceId = id}
    IN  IF hits = {} THEN None
        ELSE Some(resourceList[CHOOSE k \in hits : \A j \in hits : j <= k])

\* new Map(actions.map(a => [a.ActionId, a])).get(id)
ActionMapGet(actionList, id) ==
    LET hits == {k \in 1..Len(actionList) : actionList[k].ActionId = id}
    IN  IF hits = {} THEN None
        ELSE Some(actionList[CHOOSE k \in hits : \A j \in hits : j <= k])

\* Variant: the filter keeps the active rows of every role
RolePermissionsAnyRole(matrix, roleId) ==
    SelectSeq(matrix, LAMBDA p : p.IsActive)

\* permissionMatrix.filter(p => p.RoleId === currentRoleId && p.IsActive)
RolePermissions(matrix, roleId) ==
    SelectSeq(matrix, LAMBDA p : p.RoleId = roleId /\ p.IsActive)

\* Variant: a group is opened for every row, seen before or not
RECURSIVE ResourceKeysRepeated(_, _)
ResourceKeysRepeated(rows, seen) ==
    IF rows = <<>> THEN <<>>
    ELSE <<Head(rows).ResourceId>> \o ResourceKeysRepeated(Tail(rows), seen)

\* the keys of permissionsByResource in insertion order: each ResourceId at
\* its first row
RECURSIVE ResourceKeys(_, _)
ResourceKeys(rows, seen) ==
    IF rows = <<>> THEN <<>>
    ELSE IF Head(rows).ResourceId \in seen THEN ResourceKeys(Tail(rows), seen)
    ELSE <<Head(rows).ResourceId>> \o
         ResourceKeys(Tail(rows), seen \cup {Head(rows).ResourceId})

\* permissionsByResource.get(resourceId): the role's rows of that resource
ResourceGroup(rows, resourceId) ==
    SelectSeq(rows, LAMBDA p : p.ResourceId = resourceId)

\* Variant: the mapped names are not filtered, '' stays for an unknown ActionId
RECURSIVE GroupActionsUnfiltered(_, _)
GroupActionsUnfiltered(permissions, actionList) ==
    IF permissions = <<>> THEN <<>>
    ELSE LET action == ActionMapGet(actionList, Head(permissions).ActionId)
             name == IF action # None THEN action[1].Action ELSE ""
         IN  <<name>> \o GroupActionsUnfiltered(Tail(permissions), actionList)

\* permissions.map(p => actionMap.get(p.ActionId)?.Action ?? '').filter(Boolean)
RECURSIVE GroupActions(_, _)
GroupActions(permissions, actionList) ==
    IF permissions = <<>> THEN <<>>
    ELSE LET action == ActionMapGet(actionList, Head(permissions).ActionId)
             name == IF action # None THEN action[1].Action ELSE ""
         IN  (IF name # "" THEN <<name>> ELSE <<>>) \o
             GroupActions(Tail(permissions), actionList)

\* the predicate of the validPermissions filter
IsValidAt(p, time) ==
    /\ ~(p.ValidFrom # None /\ p.ValidFrom[1] > time)
    /\ ~(p.ValidTo # None /\ p.ValidTo[1] < time)

\* Variant: the validity filter lets every row through
ValidPermissionsUnfiltered(permissions, time) == permissions

\* validPermissions = permissions.filter(p => ...)
ValidPermissions(permissions, time) ==
    SelectSeq(permissions, LAMBDA p : IsValidAt(p, time))

\* Variant: the last valid row of the group supplies the entry's fields
LastPermission(validPermissions) == validPermissions[Len(validPermissions)]

\* firstPermission = validPermissions[0]
FirstPermission(validPermissions) == validPermissions[1]

\* Variant: a parse error is caught and the metadata left undefined
EntryMetadataSwallowed(firstPermission) ==
    IF firstPermission.Metadata # None /\ firstPermission.Metadata[1] # ""
         /\ JsonParse(firstPermission.Metadata[1]).ok
    THEN [threw |-> FALSE, value |-> Some(JsonParse(firstPermission.Metadata[1]).value)]
    ELSE [threw |-> FALSE, value |-> None]

\* firstPermission.Metadata ? JSON.parse(firstPermission.Metadata) : undefined
\* (undefined and the empty string are falsy; JSON.parse may raise)
EntryMetadata(firstPermission) ==
    IF firstPermission.Metadata # None /\ firstPermission.Metadata[1] # ""
    THEN LET parsed == JsonParse(firstPermission.Metadata[1])
         IN  IF parsed.ok THEN [threw |-> FALSE, value |-> Some(parsed.value)]
             ELSE [threw |-> TRUE, value |-> None]
    ELSE [threw |-> FALSE, value |-> None]

\* the body of permissionsByResource.forEach for one group: the entries it
\* pushes (none or one), or the error JSON.parse raises
CompileGroup(permissions, resourceId, resourceList, actionList, time) ==
    LET resource == ResourceMapGet(resourceList, resourceId)
        names == GroupActions(permissions, actionList)
        validPermissions == ValidPermissions(permissions, time)
        firstPermission == FirstPermission(validPermissions)
        metadata == EntryMetadata(firstPermission)
    IN  IF resource = None THEN [threw |-> FALSE, pushed |-> <<>>]
        ELSE IF validPermissions = <<>> THEN [threw |-> FALSE, pushed |-> <<>>]
        ELSE IF metadata.threw THEN [threw |-> TRUE, pushed |-> <<>>]
        ELSE [threw |-> FALSE,
              pushed |-> <<[resourcePath |-> resource[1].ResourcePath,
                            resourceId |-> resource[1].ResourceId,
                            actions |-> names,
                            isActive |-> TRUE,
                            isOverride |-> firstPermission.IsOverride,
                            hierarchyLevel |-> resource[1].HierarchyLevel,
                            validFrom |-> firstPermission.ValidFrom,
                            validTo |-> firstPermission.ValidTo,
                            metadata |-> metadata.value]>>]

\* permissionsByResource.forEach(...) over the groups in insertion order
RECURSIVE CompileGroups(_, _, _, _, _)
CompileGroups(keys, rolePermissions, resourceList, actionList, time) ==
    IF keys = <<>> THEN [threw |-> FALSE, value |-> <<>>]
    ELSE LET first == CompileGroup(ResourceGroup(rolePermissions, Head(keys)),
                                   Head(keys), resourceList, actionList, time)
             rest == CompileGroups(Tail(keys), rolePermissions, resourceList,
                                   actionList, time)
         IN  IF first.threw \/ rest.threw THEN [threw |-> TRUE, value |-> <<>>]
             ELSE [threw |-> FALSE, value |-> first.pushed \o rest.value]

\* Variant: without a role the rows of role 1 are compiled
transformToUserPermissionsDefaultRole(matrix, resourceList, actionList, currentRoleId, time) ==
    LET roleId == IF currentRoleId = None \/ currentRoleId[1] = 0 THEN 1
                  ELSE currentRoleId[1]
        rolePermissions == RolePermissions(matrix, roleId)
    IN  CompileGroups(ResourceKeys(rolePermissions, {}), rolePermissions,
                      resourceList, actionList, time)

\* currentRoleId is optional; undefined and 0 are falsy
transformToUserPermissions(matrix, resourceList, actionList, currentRoleId, time) ==
    IF currentRoleId = None \/ currentRoleId[1] = 0
    THEN [threw |-> FALSE, value |-> <<>>]
    ELSE LET rolePermissions == RolePermissions(matrix, currentRoleId[1])
         IN  CompileGroups(ResourceKeys(rolePermissions, {}), rolePermissions,
                           resourceList, actionList, time)

-----------------------------------------------------------------------------
(* Bounded inputs of the evaluator *)

\* longest requested path, in characters, where the workflow rules are explored
MaxFlowPathLen == 4

\* most entries in a permission list
MaxPerms == 2

\* resource paths of the index, in the order "/orders", "/orders/form",
\* "/orders/form-x" (its name extends the section's), "/orders/form/amount"
EntryPaths ==
    << <<"/", "a">>,
       <<"/", "a", "/", "a">>,
       <<"/", "a", "/", "a", "a">>,
       <<"/", "a", "/", "a", "/", "a">> >>

ActionNames == {"READ", "UPDATE"}

\* { restrictedActions?: string[]; allowedActions?: string[] }
Restriction(restricted, allowed) ==
    [restrictedActions |-> restricted, allowedActions |-> allowed]

\* metadata { workflowRestrictions: { [stage]: restriction } }
StageMetadata(stage, restriction) ==
    Some([workflowRestrictions |-> Some([s \in {stage} |-> restriction])])

UserPermission(path, acts, override, meta) ==
    [resourcePath |-> path, resourceId |-> 0, actions |-> acts, isActive |-> TRUE,
     isOverride |-> override, hierarchyLevel |-> 0, validFrom |-> None,
     validTo |-> None, metadata |-> meta]

\* the call hasPermission(userPermissions, {resourcePath, action, workflowStage}, ambient)
Request(path, action, paramStage, ambientStage) ==
    [resourcePath |-> path, action |-> action, workflowStage |-> paramStage,
     ambientStage |-> ambientStage]

Idle == Request(<<>>, "", None, None)

\* Hierarchy inputs: every entry path, a plain or restricted entry
EvalEntryVariants ==
    {[actions |-> a, isOverride |-> o, metadata |-> m] :
        a \in {<<>>, <<"READ">>},
        o \in BOOLEAN,
        m \in {None, StageMetadata("draft", Restriction(Some(<<"READ">>), None))}}

\* for each path of EntryPaths, no entry or an entry of some variant
EvalChoices ==
    {c \in [1..Len(EntryPaths) -> {None} \cup {Some(v) : v \in EvalEntryVariants}] :
        Cardinality({k \in 1..Len(EntryPaths) : c[k] # None}) <= MaxPerms}

\* the list of the chosen entries, in the order of EntryPaths
RECURSIVE EvalListFrom(_, _)
EvalListFrom(c, k) ==
    IF k > Len(EntryPaths) THEN <<>>
    ELSE (IF c[k] = None THEN <<>>
          ELSE <<UserPermission(EntryPaths[k], c[k][1].actions, c[k][1].isOverride,
                                c[k][1].metadata)>>)
         \o EvalListFrom(c, k + 1)

\* lists of at most MaxPerms entries, one entry at most per path
EvalPermLists == {EvalListFrom(c, 1) : c \in EvalChoices}

EvalRequests ==
    {Request(p, a, s, None) :
        p \in RequestPaths, a \in ActionNames, s \in {None, Some("draft")}}

\* Workflow inputs: a page and its section, every shape of the rules of one stage
FlowMetadatas ==
    {None, Some([workflowRestrictions |-> None])} \cup
    {StageMetadata("draft", Restriction(r, a)) :
        r \in {None, Some(<<"READ">>)},
        a \in {None, Some(<<>>), Some(<<"READ">>)}}

FlowEntryVariants ==
    {[actions |-> a, isOverride |-> o, metadata |-> m] :
        a \in {<<>>, <<"READ">>, <<"READ", "UPDATE">>},
        o \in BOOLEAN, m \in FlowMetadatas}

\* the page and its section
FlowPaths == <<EntryPaths[1], EntryPaths[2]>>

\* for each path of FlowPaths, no entry or an entry of some variant
FlowChoices ==
    {c \in [1..Len(FlowPaths) -> {None} \cup {Some(v) : v \in FlowEntryVariants}] :
        Cardinality({k \in 1..Len(FlowPaths) : c[k] # None}) <= MaxPerms}

\* the list of the chosen entries, the page first or the page last
RECURSIVE FlowListFrom(_, _, _)
FlowListFrom(c, k, pageFirst) ==
    IF k > Len(FlowPaths) THEN <<>>
    ELSE LET entry == IF c[k] = None THEN <<>>
                      ELSE <<UserPermission(FlowPaths[k], c[k][1].actions,
                                            c[k][1].isOverride, c[k][1].metadata)>>
         IN  IF pageFirst THEN entry \o FlowListFrom(c, k + 1, pageFirst)
             ELSE FlowListFrom(c, k + 1, pageFirst) \o entry

\* lists of at most MaxPerms entries with pairwise different paths, in any order
FlowPermLists == {FlowListFrom(c, 1, o) : c \in FlowChoices, o \in BOOLEAN}

\* (explicit stage, ambient stage) pairs
StagePairs ==
    { <<None, None>>, <<Some("draft"), None>>, <<None, Some("draft")>>,
      <<Some("approved"), Some("draft")>> }

FlowRequests ==
    {Request(p, a, sp[1], sp[2]) :
        p \in StringsUpTo(MaxFlowPathLen), a \in ActionNames, sp \in StagePairs}

-----------------------------------------------------------------------------
(* The evaluator applied to bounded inputs *)

\* RBACGuard has rendered nothing
NotRendered ==
    [hideOnDenied |-> FALSE, disableOnDenied |-> FALSE, fallback |-> None,
     output |-> "none"]

\* nothing is in flight and nothing was rendered
Quiet == inflight = {} /\ rendered = NotRendered

\* initialState of the slice
StoreIdle ==
    /\ roles = <<>>
    /\ permissionMatrix = <<>>
    /\ resources = <<>>
    /\ actions = <<>>
    /\ currentUserRoleId = None
    /\ stateWorkflowStage = None
    /\ isLoading = FALSE
    /\ error = None
    /\ now = 0
    /\ Quiet

InitEval ==
    /\ StoreIdle
    /\ userPermissions \in EvalPermLists
    /\ request = Idle
    /\ result = FALSE
    /\ threw = FALSE
    /\ pc = "input"

InitFlow ==
    /\ StoreIdle
    /\ userPermissions \in FlowPermLists
    /\ request = Idle
    /\ result = FALSE
    /\ threw = FALSE
    /\ pc = "input"

\* one call of hasPermission on the current index (the callers below hold it
\* back until the inputs are drawn and apply it once): it returns a boolean or
\* raises
Evaluate(r) ==
    LET params == [resourcePath |-> r.resourcePath, action |-> r.action,
                   workflowStage |-> r.workflowStage]
    IN  /\ request' = r
        /\ threw' = hasPermissionRaises(userPermissions, params, r.ambientStage)
        /\ result' = IF threw' THEN result
                     ELSE hasPermission(userPermissions, params, r.ambientStage)
        /\ pc' = "done"
        /\ UNCHANGED <<permissionMatrix, resources, actions, currentUserRoleId, now,
                       userPermissions>>
        /\ UNCHANGED others

EvaluateHierarchy == pc = "input" /\ \E r \in EvalRequests : Evaluate(r)

EvaluateWorkflow == pc = "input" /\ \E r \in FlowRequests : Evaluate(r)

NextEval == EvaluateHierarchy

NextFlow == EvaluateWorkflow

SpecEval == InitEval /\ [][NextEval]_vars

SpecFlow == InitFlow /\ [][NextFlow]_vars

-----------------------------------------------------------------------------
(* The evaluator applied to metadata of any shape *)

\* the rules of the draft stage, well formed or holding a number
AnyMetadatas ==
    {None} \cup
    {StageMetadata("draft", Restriction(r, a)) :
        r \in {None, Some(<<"READ">>), NonArray(1)},
        a \in {None, Some(<<"READ">>), NonArray(0), NonArray(1)}}

AnyEntryVariants ==
    {[actions |-> a, isOverride |-> o, metadata |-> m] :
        a \in {<<>>, <<"READ">>}, o \in BOOLEAN, m \in AnyMetadatas}

AnyChoices ==
    {c \in [1..Len(FlowPaths) -> {None} \cup {Some(v) : v \in AnyEntryVariants}] :
        Cardinality({k \in 1..Len(FlowPaths) : c[k] # None}) <= MaxPerms}

AnyPermLists == {FlowListFrom(c, 1, TRUE) : c \in AnyChoices}

AnyRequests ==
    {Request(p, a, s, None) :
        p \in StringsUpTo(MaxFlowPathLen), a \in ActionNames,
        s \in {None, Some("draft")}}

InitTotal ==
    /\ StoreIdle
    /\ userPermissions \in AnyPermLists
    /\ request = Idle
    /\ result = FALSE
    /\ threw = FALSE
    /\ pc = "input"

EvaluateAny == pc = "input" /\ \E r \in AnyRequests : Evaluate(r)

NextTotal == EvaluateAny

SpecTotal == InitTotal /\ [][NextTotal]_vars

-----------------------------------------------------------------------------
(* The callers of the evaluator: the helpers of rbacUtils.ts, the hook
   useRBACPermissions and the component RBACGuard *)

\* isResourceVisible(userPermissions, resourcePath, workflowStage)
isResourceVisible(perms, resourcePath, workflowStage) ==
    hasPermission(perms, [resourcePath |-> resourcePath, action |-> "READ",
                          workflowStage |-> None], workflowStage)

\* isResourceEnabled(userPermissions, resourcePath, action, workflowStage)
isResourceEnabled(perms, resourcePath, action, workflowStage) ==
    hasPermission(perms, [resourcePath |-> resourcePath, action |-> action,
                          workflowStage |-> None], workflowStage)

\* customWorkflowStage || workflowStage, the stage the hook hands on
HookStage(customWorkflowStage, workflowStage) ==
    IF Truthy(customWorkflowStage) THEN customWorkflowStage ELSE workflowStage

\* checkPermission(resourcePath, action, customWorkflowStage) of the hook
checkPermission(perms, workflowStage, resourcePath, action, customWorkflowStage) ==
    hasPermission(perms, [resourcePath |-> resourcePath, action |-> action,
                          workflowStage |-> None],
                  HookStage(customWorkflowStage, workflowStage))

\* checkVisibility(resourcePath, customWorkflowStage) of the hook
checkVisibility(perms, workflowStage, resourcePath, customWorkflowStage) ==
    isResourceVisible(perms, resourcePath, HookStage(customWorkflowStage, workflowStage))

\* checkEnabled(resourcePath, action, customWorkflowStage) of the hook
checkEnabled(perms, workflowStage, resourcePath, action, customWorkflowStage) ==
    isResourceEnabled(perms, resourcePath, action,
                      HookStage(customWorkflowStage, workflowStage))

\* `fallback ? <>{fallback}</> : null`
FallbackOrNull(fallback) == IF fallback # None THEN "fallback" ELSE "null"

\* Variant: disableOnDenied is tested before hideOnDenied
GuardOutputDisableFirst(hasAccess, hideOnDenied, disableOnDenied, fallback) ==
    IF ~hasAccess /\ disableOnDenied THEN "disabled"
    ELSE IF ~hasAccess /\ hideOnDenied THEN FallbackOrNull(fallback)
    ELSE IF ~hasAccess THEN FallbackOrNull(fallback)
    ELSE "children"

\* what RBACGuard returns: the children, the children in a Box without
\* pointer events, the fallback, or null
GuardOutput(hasAccess, hideOnDenied, disableOnDenied, fallback) ==
    IF ~hasAccess /\ hideOnDenied THEN FallbackOrNull(fallback)
    ELSE IF ~hasAccess /\ disableOnDenied THEN "disabled"
    ELSE IF ~hasAccess THEN FallbackOrNull(fallback)
    ELSE "children"

\* Inputs: a page and its section, plain or with a rule for one stage
ViewMetadatas ==
    {None,
     StageMetadata("draft", Restriction(Some(<<"READ">>), None)),
     StageMetadata("approved", Restriction(Some(<<"READ">>), None))}

ViewEntryVariants ==
    {[actions |-> a, isOverride |-> o, metadata |-> m] :
        a \in {<<>>, <<"READ">>}, o \in BOOLEAN, m \in ViewMetadatas}

ViewChoices ==
    {c \in [1..Len(FlowPaths) -> {None} \cup {Some(v) : v \in ViewEntryVariants}] :
        Cardinality({k \in 1..Len(FlowPaths) : c[k] # None}) <= MaxPerms}

ViewPermLists == {FlowListFrom(c, 1, TRUE) : c \in ViewChoices}

\* stages: none, two names, and the empty string
ViewStages == {None, Some("draft"), Some("approved"), Some("")}

\* the page, its section and a field of the section
ViewPaths == {EntryPaths[1], EntryPaths[2], EntryPaths[4]}

Fallbacks == {None, Some("Access denied")}

InitView ==
    /\ roles = <<>>
    /\ permissionMatrix = <<>>
    /\ resources = <<>>
    /\ actions = <<>>
    /\ currentUserRoleId = None
    /\ stateWorkflowStage \in ViewStages
    /\ isLoading = FALSE
    /\ error = None
    /\ now = 0
    /\ Quiet
    /\ userPermissions \in ViewPermLists
    /\ request = Idle
    /\ result = FALSE
    /\ threw = FALSE
    /\ pc = "input"

\* a caller's use of the evaluator: the request is recorded with the explicit
\* stage the caller was given and the store's stage
Answer(r, value) ==
    /\ request' = r
    /\ result' = value
    /\ threw' = FALSE
    /\ pc' = "done"
    /\ UNCHANGED <<permissionMatrix, resources, actions, currentUserRoleId, now,
                   userPermissions, roles, stateWorkflowStage, isLoading, error,
                   inflight>>

\* hasPermission(userPermissions, {resourcePath, action, workflowStage}, state.workflowStage)
CallHasPermission ==
    /\ pc = "input"
    /\ \E p \in ViewPaths, a \in ActionNames, s \in ViewStages :
          /\ Evaluate(Request(p, a, s, stateWorkflowStage))

CallCheckPermission ==
    /\ pc = "input"
    /\ \E p \in ViewPaths, a \in ActionNames, s \in ViewStages :
          /\ Answer(Request(p, a, s, stateWorkflowStage),
                    checkPermission(userPermissions, stateWorkflowStage, p, a, s))
          /\ UNCHANGED rendered

CallCheckVisibility ==
    /\ pc = "input"
    /\ \E p \in ViewPaths, s \in ViewStages :
          /\ Answer(Request(p, "READ", s, stateWorkflowStage),
                    checkVisibility(userPermissions, stateWorkflowStage, p, s))
          /\ UNCHANGED rendered

CallCheckEnabled ==
    /\ pc = "input"
    /\ \E p \in ViewPaths, a \in ActionNames, s \in ViewStages :
          /\ Answer(Request(p, a, s, stateWorkflowStage),
                    checkEnabled(userPermissions, stateWorkflowStage, p, a, s))
          /\ UNCHANGED rendered

\* one render of <RBACGuard resourcePath action fallback hideOnDenied disableOnDenied>
RenderGuard ==
    /\ pc = "input"
    /\ \E p \in ViewPaths, a \in ActionNames, hide \in BOOLEAN, disable \in BOOLEAN,
          fb \in Fallbacks :
          LET hasAccess == hasPermission(userPermissions,
                               [resourcePath |-> p, action |-> a, workflowStage |-> None],
                               stateWorkflowStage)
          IN  /\ Answer(Request(p, a, None, stateWorkflowStage), hasAccess)
              /\ rendered' = [hideOnDenied |-> hide, disableOnDenied |-> disable,
                              fallback |-> fb,
                              output |-> GuardOutput(hasAccess, hide, disable, fb)]

NextView ==
    \/ CallHasPermission
    \/ CallCheckPermission
    \/ CallCheckVisibility
    \/ CallCheckEnabled
    \/ RenderGuard

SpecView == InitView /\ [][NextView]_vars

-----------------------------------------------------------------------------
(* Bounded inputs of the compiler *)

\* most rows in a permission matrix
MaxRows == 2

\* the time of compilation
CompileTime == 2

Resource(id, path, level) ==
    [ResourceId |-> id, ResourcePath |-> path, ResourceName |-> "",
     ResourceType |-> "PAGE", HierarchyLevel |-> level]

\* resources 1 and 2: a page and its section
ResourceTable == <<Resource(1, EntryPaths[1], 0), Resource(2, EntryPaths[2], 1)>>

ActionTable ==
    <<[ActionId |-> 1, Action |-> "READ"], [ActionId |-> 2, Action |-> "UPDATE"]>>

\* validity windows around CompileTime: none, ended, not yet begun
Windows ==
    { [ValidFrom |-> None, ValidTo |-> None],
      [ValidFrom |-> None, ValidTo |-> Some(CompileTime - 1)],
      [ValidFrom |-> Some(CompileTime + 1), ValidTo |-> None] }

MatrixRows ==
    {[PermissionId |-> 0, RoleId |-> r, ResourceId |-> res, ActionId |-> a,
      IsActive |-> act, ValidFrom |-> w.ValidFrom, ValidTo |-> w.ValidTo,
      IsOverride |-> FALSE, Metadata |-> None] :
        r \in {1, 2}, res \in {1, 2}, a \in {1, 2}, act \in BOOLEAN, w \in Windows}

InitCompile ==
    /\ \E n \in 0..MaxRows : permissionMatrix \in [1..n -> MatrixRows]
    /\ resources = ResourceTable
    /\ actions = ActionTable
    /\ currentUserRoleId \in {None, Some(1)}
    /\ now = CompileTime
    /\ userPermissions = <<>>
    /\ request = Idle
    /\ result = FALSE
    /\ threw = FALSE
    /\ pc = "input"
    /\ roles = <<>>
    /\ stateWorkflowStage = None
    /\ isLoading = FALSE
    /\ error = None
    /\ Quiet

\* one call of transformToUserPermissions on the inputs
Compile ==
    /\ pc = "input"
    /\ LET compiled == transformToUserPermissions(permissionMatrix, resources,
                                                  actions, currentUserRoleId, now)
       IN  /\ userPermissions' = compiled.value
           /\ threw' = compiled.threw
    /\ pc' = "done"
    /\ UNCHANGED <<permissionMatrix, resources, actions, currentUserRoleId, now,
                   request, result>>
    /\ UNCHANGED others

NextCompile == Compile

SpecCompile == InitCompile /\ [][NextCompile]_vars

-----------------------------------------------------------------------------
(* The compiler applied to rows that carry override flags and metadata, and to
   rows whose ids are in neither lookup table *)

\* Metadata text restricting READ in the draft stage
DraftRestrictsRead ==
    "{\"workflowRestrictions\":{\"draft\":{\"restrictedActions\":[\"READ\"]}}}"

\* text that is not JSON
Malformed == "{workflowRestrictions"

\* (IsOverride, Metadata) of a row
RowFlavours ==
    { <<FALSE, None>>, <<TRUE, None>>, <<TRUE, Some(DraftRestrictsRead)>>,
      <<FALSE, Some(Malformed)>>, <<FALSE, Some("")>> }

\* validity windows around CompileTime: none, ended, still open
MetaWindows ==
    { [ValidFrom |-> None, ValidTo |-> None],
      [ValidFrom |-> None, ValidTo |-> Some(CompileTime - 1)],
      [ValidFrom |-> Some(CompileTime - 1), ValidTo |-> Some(CompileTime + 1)] }

MatrixRow(role, res, act, active, window, override, meta) ==
    [PermissionId |-> 0, RoleId |-> role, ResourceId |-> res, ActionId |-> act,
     IsActive |-> active, ValidFrom |-> window.ValidFrom, ValidTo |-> window.ValidTo,
     IsOverride |-> override, Metadata |-> meta]

\* an id that is in neither lookup table
DanglingId == Len(ResourceTable) + Len(ActionTable)

\* rows of role 1: every flavour on resource 1 (ActionId known or not), a
\* plain row on resource 2, and rows of a resource that is not in the table
MetaRows ==
    {MatrixRow(1, 1, a, TRUE, w, f[1], f[2]) :
        a \in {1, 2, DanglingId}, w \in MetaWindows, f \in RowFlavours}
    \cup {MatrixRow(1, 2, 1, TRUE, [ValidFrom |-> None, ValidTo |-> None], FALSE, None)}
    \cup {MatrixRow(1, DanglingId, 1, TRUE, [ValidFrom |-> None, ValidTo |-> None],
                    FALSE, m) : m \in {None, Some(Malformed)}}

InitMeta ==
    /\ \E n \in 0..MaxRows : permissionMatrix \in [1..n -> MetaRows]
    /\ resources = ResourceTable
    /\ actions = ActionTable
    /\ currentUserRoleId = Some(1)
    /\ now = CompileTime
    /\ userPermissions = <<>>
    /\ request = Idle
    /\ result = FALSE
    /\ threw = FALSE
    /\ pc = "input"
    /\ roles = <<>>
    /\ stateWorkflowStage = None
    /\ isLoading = FALSE
    /\ error = None
    /\ Quiet

NextMeta == Compile

SpecMeta == InitMeta /\ [][NextMeta]_vars

-----------------------------------------------------------------------------
(* The slice: its reducers, and the thunks whose settled actions it handles *)

\* most thunks in flight at a time
MaxInFlight == 1

\* how far the clock moves on from CompileTime
MaxTicks == 1

RoleIds == {1, 2}

RoleTable == <<[RoleId |-> 1, RoleName |-> "Admin"], [RoleId |-> 2, RoleName |-> "Manager"]>>

NoWindow == [ValidFrom |-> None, ValidTo |-> None]

\* the matrices a permission fetch may deliver: rows of both roles; rows of
\* role 1 that end at, or begin after, CompileTime; a row of role 2 whose
\* metadata is malformed; no rows
ServerMatrices ==
    { << MatrixRow(1, 1, 1, TRUE, NoWindow, FALSE, None),
         MatrixRow(2, 1, 2, TRUE, NoWindow, TRUE, Some(DraftRestrictsRead)) >>,
      << MatrixRow(1, 1, 1, TRUE, [ValidFrom |-> None, ValidTo |-> Some(CompileTime)],
                   FALSE, None),
         MatrixRow(1, 2, 1, TRUE, [ValidFrom |-> Some(CompileTime + 1), ValidTo |-> None],
                   FALSE, None) >>,
      << MatrixRow(2, 1, 1, TRUE, NoWindow, FALSE, Some(Malformed)) >>,
      << >> }

\* a dispatched thunk: its type and its argument (0 when it takes none)
Thunk(type, arg) == [type |-> type, arg |-> arg]

Thunks ==
    {Thunk(t, r) : t \in {"fetchPermissionMatrix", "fetchSimpleDemoPermissions"},
                   r \in RoleIds}
    \cup {Thunk(t, 0) : t \in {"fetchRoles", "fetchResources", "fetchActions",
                                "fetchSimpleDemoData"}}

\* the thunks whose pending and rejected cases set isLoading and error
LoadingThunks ==
    {"fetchPermissionMatrix", "fetchSimpleDemoData", "fetchSimpleDemoPermissions"}

InitStore ==
    /\ roles = <<>>
    /\ permissionMatrix = <<>>
    /\ resources = <<>>
    /\ actions = <<>>
    /\ userPermissions = <<>>
    /\ currentUserRoleId = None
    /\ stateWorkflowStage = None
    /\ isLoading = FALSE
    /\ error = None
    /\ now = CompileTime
    /\ Quiet
    /\ request = Idle
    /\ result = FALSE
    /\ threw = FALSE
    /\ pc = "init"

\* what no action of the store touches
calls == <<request, result, rendered>>

\* Variant: the index is compiled for the role held before the assignment
SetCurrentUserRoleStale(roleId) ==
    LET compiled == transformToUserPermissions(permissionMatrix, resources, actions,
                                               currentUserRoleId, now)
    IN  /\ pc' = "setCurrentUserRole"
        /\ threw' = compiled.threw
        /\ IF compiled.threw THEN UNCHANGED <<currentUserRoleId, userPermissions>>
           ELSE /\ currentUserRoleId' = Some(roleId)
                /\ userPermissions' = compiled.value
        /\ UNCHANGED <<roles, permissionMatrix, resources, actions, stateWorkflowStage,
                       isLoading, error, now, inflight, calls>>

\* reducer setCurrentUserRole; a reducer that raises leaves the state as it was
SetCurrentUserRole(roleId) ==
    LET compiled == transformToUserPermissions(permissionMatrix, resources, actions,
                                               Some(roleId), now)
    IN  /\ pc' = "setCurrentUserRole"
        /\ threw' = compiled.threw
        /\ IF compiled.threw THEN UNCHANGED <<currentUserRoleId, userPermissions>>
           ELSE /\ currentUserRoleId' = Some(roleId)
                /\ userPermissions' = compiled.value
        /\ UNCHANGED <<roles, permissionMatrix, resources, actions, stateWorkflowStage,
                       isLoading, error, now, inflight, calls>>

\* reducer setWorkflowStage
SetWorkflowStage(stage) ==
    /\ stateWorkflowStage' = Some(stage)
    /\ pc' = "setWorkflowStage"
    /\ threw' = FALSE
    /\ UNCHANGED <<roles, permissionMatrix, resources, actions, currentUserRoleId,
                   userPermissions, isLoading, error, now, inflight, calls>>

\* reducer clearError
ClearError ==
    /\ error' = None
    /\ pc' = "clearError"
    /\ threw' = FALSE
    /\ UNCHANGED <<roles, permissionMatrix, resources, actions, currentUserRoleId,
                   userPermissions, stateWorkflowStage, isLoading, now, inflight, calls>>

\* reducer resetRBAC: return initialState
ResetRBAC ==
    /\ roles' = <<>>
    /\ permissionMatrix' = <<>>
    /\ resources' = <<>>
    /\ actions' = <<>>
    /\ userPermissions' = <<>>
    /\ currentUserRoleId' = None
    /\ stateWorkflowStage' = None
    /\ isLoading' = FALSE
    /\ error' = None
    /\ pc' = "resetRBAC"
    /\ threw' = FALSE
    /\ UNCHANGED <<now, inflight, calls>>

\* a thunk is dispatched: its pending action reaches the slice
Pending(t) ==
    /\ t \notin inflight
    /\ Cardinality(inflight) < MaxInFlight
    /\ inflight' = inflight \cup {t}
    /\ IF t.type \in LoadingThunks
       THEN isLoading' = TRUE /\ error' = None
       ELSE UNCHANGED <<isLoading, error>>
    /\ pc' = "pending"
    /\ threw' = FALSE
    /\ UNCHANGED <<roles, permissionMatrix, resources, actions, currentUserRoleId,
                   userPermissions, stateWorkflowStage, now, calls>>

\* a thunk is rejected: state.error = action.error.message
Rejected(t) ==
    /\ t \in inflight
    /\ inflight' = inflight \ {t}
    /\ error' = Some("Rejected")
    /\ isLoading' = IF t.type \in LoadingThunks THEN FALSE ELSE isLoading
    /\ pc' = "rejected"
    /\ threw' = FALSE
    /\ UNCHANGED <<roles, permissionMatrix, resources, actions, currentUserRoleId,
                   userPermissions, stateWorkflowStage, now, calls>>

\* Variant: the index is compiled from the matrix the store held before
LoadMatrixStale(type, payload) ==
    LET compiled == transformToUserPermissions(permissionMatrix, resources, actions,
                                               currentUserRoleId, now)
    IN  /\ pc' = type
        /\ threw' = compiled.threw
        /\ IF compiled.threw
           THEN UNCHANGED <<isLoading, permissionMatrix, userPermissions>>
           ELSE /\ isLoading' = FALSE
                /\ permissionMatrix' = payload
                /\ userPermissions' = compiled.value
        /\ UNCHANGED <<roles, resources, actions, currentUserRoleId,
                       stateWorkflowStage, error, now, calls>>

\* the fulfilled case of the two permission fetches: the payload is stored and
\* compiled for the role the store holds
LoadMatrix(type, payload) ==
    LET compiled == transformToUserPermissions(payload, resources, actions,
                                               currentUserRoleId, now)
    IN  /\ pc' = type
        /\ threw' = compiled.threw
        /\ IF compiled.threw
           THEN UNCHANGED <<isLoading, permissionMatrix, userPermissions>>
           ELSE /\ isLoading' = FALSE
                /\ permissionMatrix' = payload
                /\ userPermissions' = compiled.value
        /\ UNCHANGED <<roles, resources, actions, currentUserRoleId,
                       stateWorkflowStage, error, now, calls>>

Settle(type) ==
    \E t \in inflight : t.type = type /\ inflight' = inflight \ {t}

FetchPermissionMatrixFulfilled ==
    /\ Settle("fetchPermissionMatrix")
    /\ \E payload \in ServerMatrices :
          LoadMatrix("fetchPermissionMatrix.fulfilled", payload)

FetchSimpleDemoPermissionsFulfilled ==
    /\ Settle("fetchSimpleDemoPermissions")
    /\ \E payload \in ServerMatrices :
          LoadMatrix("fetchSimpleDemoPermissions.fulfilled", payload)

FetchRolesFulfilled ==
    /\ Settle("fetchRoles")
    /\ roles' = RoleTable
    /\ pc' = "fetchRoles.fulfilled"
    /\ threw' = FALSE
    /\ UNCHANGED <<permissionMatrix, resources, actions, currentUserRoleId,
                   userPermissions, stateWorkflowStage, isLoading, error, now, calls>>

FetchResourcesFulfilled ==
    /\ Settle("fetchResources")
    /\ resources' = ResourceTable
    /\ pc' = "fetchResources.fulfilled"
    /\ threw' = FALSE
    /\ UNCHANGED <<roles, permissionMatrix, actions, currentUserRoleId,
                   userPermissions, stateWorkflowStage, isLoading, error, now, calls>>

FetchActionsFulfilled ==
    /\ Settle("fetchActions")
    /\ actions' = ActionTable
    /\ pc' = "fetchActions.fulfilled"
    /\ threw' = FALSE
    /\ UNCHANGED <<roles, permissionMatrix, resources, currentUserRoleId,
                   userPermissions, stateWorkflowStage, isLoading, error, now, calls>>

FetchSimpleDemoDataFulfilled ==
    /\ Settle("fetchSimpleDemoData")
    /\ isLoading' = FALSE
    /\ roles' = RoleTable
    /\ resources' = ResourceTable
    /\ actions' = ActionTable
    /\ pc' = "fetchSimpleDemoData.fulfilled"
    /\ threw' = FALSE
    /\ UNCHANGED <<permissionMatrix, currentUserRoleId, userPermissions,
                   stateWorkflowStage, error, now, calls>>

\* Variant: the index is compiled again whenever the clock moves
TickRecompiles ==
    /\ now < CompileTime + MaxTicks
    /\ now' = now + 1
    /\ userPermissions' =
          transformToUserPermissions(permissionMatrix, resources, actions,
                                     currentUserRoleId, now + 1).value
    /\ pc' = "tick"
    /\ threw' = FALSE
    /\ UNCHANGED <<roles, permissionMatrix, resources, actions, currentUserRoleId,
                   stateWorkflowStage, isLoading, error, inflight, calls>>

\* time passes
Tick ==
    /\ now < CompileTime + MaxTicks
    /\ now' = now + 1
    /\ pc' = "tick"
    /\ threw' = FALSE
    /\ UNCHANGED <<roles, permissionMatrix, resources, actions, currentUserRoleId,
                   userPermissions, stateWorkflowStage, isLoading, error, inflight,
                   calls>>

NextStore ==
    \/ \E roleId \in RoleIds : SetCurrentUserRole(roleId)
    \/ SetWorkflowStage("draft")
    \/ ClearError
    \/ ResetRBAC
    \/ \E t \in Thunks : Pending(t)
    \/ \E t \in Thunks : Rejected(t)
    \/ FetchPermissionMatrixFulfilled
    \/ FetchSimpleDemoPermissionsFulfilled
    \/ FetchRolesFulfilled
    \/ FetchResourcesFulfilled
    \/ FetchActionsFulfilled
    \/ FetchSimpleDemoDataFulfilled
    \/ Tick

SpecStore == InitStore /\ [][NextStore]_vars

-----------------------------------------------------------------------------
(* Vocabulary of the properties *)

Done == pc = "done"

ReqPath == request.resourcePath

ReqAction == request.action

\* the stage the call is decided with: the explicit one, else the ambient one
ReqStage == CurrentStage(request.workflowStage, request.ambientStage)

StageInEffect == Truthy(ReqStage)

\* index of the entry at a path (paths are unique in an index), 0 if none
EntryAt(path) ==
    IF \E k \in 1..Len(userPermissions) : userPermissions[k].resourcePath = path
    THEN CHOOSE k \in 1..Len(userPermissions) : userPermissions[k].resourcePath = path
    ELSE 0

Grants(k, action) == k # 0 /\ Includes(userPermissions[k].actions, action)

ReqSegments == PathSegments(ReqPath)

\* the ancestor paths of the request: '/' joined with a leading run of its segments
AncestorLevels == 0..(Len(ReqSegments) - 1)

AncestorAt(i) == EntryAt(ParentPath(ReqSegments, i))

\* the levels whose entry contains the requested action
GrantingLevels ==
    LET segs == ReqSegments
    IN  {i \in 0..(Len(segs) - 1) : Grants(EntryAt(ParentPath(segs, i)), ReqAction)}

\* the matched ancestor: the nearest level that grants, when there is no exact entry
MatchedAncestor ==
    LET levels == GrantingLevels
    IN  IF EntryAt(ReqPath) # 0 \/ levels = {} THEN 0
        ELSE AncestorAt(CHOOSE i \in levels : \A j \in levels : j <= i)

\* an override entry without the action whose path starts, as a string, with
\* the requested path
OverrideDenyEntry(k) ==
    /\ userPermissions[k].isOverride
    /\ ~Includes(userPermissions[k].actions, ReqAction)
    /\ StartsWith(userPermissions[k].resourcePath, ReqPath)

SomeOverrideDeny == \E k \in 1..Len(userPermissions) : OverrideDenyEntry(k)

\* the entry the workflow rules are applied to: the exact entry unless it is an
\* override, else the matched ancestor; 0 if none
SelectedEntry ==
    LET exact == EntryAt(ReqPath)
    IN  IF exact # 0
        THEN (IF userPermissions[exact].isOverride THEN 0 ELSE exact)
        ELSE MatchedAncestor

\* the restriction object of entry k for the stage in effect, if any
HasStageRule(k) ==
    /\ StageInEffect
    /\ userPermissions[k].metadata # None
    /\ userPermissions[k].metadata[1].workflowRestrictions # None
    /\ ReqStage[1] \in DOMAIN userPermissions[k].metadata[1].workflowRestrictions[1]

StageRule(k) == userPermissions[k].metadata[1].workflowRestrictions[1][ReqStage[1]]

-----------------------------------------------------------------------------
(* Properties *)

\* the request is written as resource paths are: '/' and its segments joined
CanonicalRequest ==
    /\ ReqSegments # <<>>
    /\ ReqPath = ParentPath(ReqSegments, Len(ReqSegments) - 1)

\* C1: when the requested path (written in canonical form) has no exact entry,
\* a farther ancestor entry grants the action and an override entry at a
\* nearer proper ancestor lacks it, hasPermission returns false.
C1_OverrideDenyBlocksInheritance ==
    (/\ Done
     /\ CanonicalRequest
     /\ EntryAt(ReqPath) = 0
     /\ \E far, near \in AncestorLevels :
           /\ far < near
           /\ near < Len(ReqSegments) - 1
           /\ Grants(AncestorAt(far), ReqAction)
           /\ AncestorAt(near) # 0
           /\ userPermissions[AncestorAt(near)].isOverride
           /\ ~Includes(userPermissions[AncestorAt(near)].actions, ReqAction))
    => result = FALSE

\* the action name a row maps to, "" when its ActionId is unknown
RowActionName(row) ==
    LET found == {k \in 1..Len(actions) : actions[k].ActionId = row.ActionId}
    IN  IF found = {} THEN "" ELSE actions[CHOOSE k \in found : TRUE].Action

\* C2: an action name is in a compiled entry's action set only if an active,
\* currently valid row of the active role for that resource maps to it.
C2_ActionsOnlyFromValidRows ==
    Done =>
        \A k \in 1..Len(userPermissions) :
            \A n \in 1..Len(userPermissions[k].actions) :
                \E j \in 1..Len(permissionMatrix) :
                    /\ currentUserRoleId # None
                    /\ permissionMatrix[j].RoleId = currentUserRoleId[1]
                    /\ permissionMatrix[j].IsActive
                    /\ permissionMatrix[j].ResourceId = userPermissions[k].resourceId
                    /\ (permissionMatrix[j].ValidFrom = None
                        \/ permissionMatrix[j].ValidFrom[1] <= now)
                    /\ (permissionMatrix[j].ValidTo = None
                        \/ permissionMatrix[j].ValidTo[1] >= now)
                    /\ RowActionName(permissionMatrix[j]) = userPermissions[k].actions[n]

\* C3: with an empty permission list hasPermission returns false for every
\* path, action and stage.
C3_DefaultDeny ==
    (Done /\ userPermissions = <<>>) => result = FALSE

C3_Witness ==
    /\ Done
    /\ userPermissions = <<>>
    /\ ReqPath = EntryPaths[2]
    /\ ReqAction = "READ"
    /\ StageInEffect
    /\ result = FALSE

\* C4: if no entry exists at the requested path, some ancestor path has an
\* entry containing the action, no override entry whose path starts with the
\* requested path lacks the action, and no stage is in effect, hasPermission
\* returns true.
C4_HierarchyInheritance ==
    (/\ Done
     /\ ~StageInEffect
     /\ EntryAt(ReqPath) = 0
     /\ ~SomeOverrideDeny
     /\ GrantingLevels # {})
    => result = TRUE

\* entry /orders with the action, request /orders/form/amount
C4_Witness ==
    /\ Done
    /\ ReqPath = EntryPaths[4]
    /\ EntryAt(ReqPath) = 0
    /\ Grants(EntryAt(EntryPaths[1]), ReqAction)
    /\ ~StageInEffect
    /\ result = TRUE

\* C5: when a non-override entry sits at the requested path the result depends
\* on that entry alone: it is the result for the list holding only that entry,
\* and an entry lacking the action denies whatever the ancestors grant.
C5_ExactMatchPrecedence ==
    Done =>
        LET exact == EntryAt(ReqPath)
        IN  (exact # 0 /\ ~userPermissions[exact].isOverride)
            => /\ result = hasPermission(<<userPermissions[exact]>>,
                                [resourcePath |-> ReqPath, action |-> ReqAction,
                                 workflowStage |-> request.workflowStage],
                                request.ambientStage)
               /\ (~Grants(exact, ReqAction) => result = FALSE)

\* the exact entry lacks the action, its parent has it, and the call denies
C5_Witness ==
    /\ Done
    /\ ReqPath = EntryPaths[2]
    /\ EntryAt(ReqPath) # 0
    /\ ~userPermissions[EntryAt(ReqPath)].isOverride
    /\ ~Grants(EntryAt(ReqPath), ReqAction)
    /\ Grants(EntryAt(EntryPaths[1]), ReqAction)
    /\ result = FALSE

C7_RestrictedWins ==
    (Done /\ StageInEffect) =>
        LET selected == SelectedEntry
        IN  (/\ selected # 0
             /\ HasStageRule(selected)
             /\ OptIncludes(StageRule(selected).restrictedActions, ReqAction))
            => result = FALSE

C7_Witness ==
    /\ Done
    /\ StageInEffect
    /\ LET selected == SelectedEntry
       IN  /\ selected # 0
           /\ HasStageRule(selected)
           /\ OptIncludes(StageRule(selected).restrictedActions, ReqAction)
           /\ OptIncludes(StageRule(selected).allowedActions, ReqAction)
           /\ Grants(selected, ReqAction)
    /\ result = FALSE

\* C8: when the selected non-override entry has a rule for the stage in effect
\* with allowedActions present, an action outside allowedActions is denied even
\* if the entry grants it; an action inside it, and not restricted, is decided
\* by the entry's action set (and, for an inherited grant, by the override-deny
\* check that precedes the workflow rules).
C8_AllowedActionsGate ==
    (Done /\ StageInEffect) =>
        LET selected == SelectedEntry
        IN  (/\ selected # 0
             /\ ~userPermissions[selected].isOverride
             /\ HasStageRule(selected)
             /\ StageRule(selected).allowedActions # None)
            => /\ ~OptIncludes(StageRule(selected).allowedActions, ReqAction)
                    => result = FALSE
               /\ (/\ OptIncludes(StageRule(selected).allowedActions, ReqAction)
                   /\ ~OptIncludes(StageRule(selected).restrictedActions, ReqAction))
                    => result = (Grants(selected, ReqAction)
                                 /\ (EntryAt(ReqPath) = 0 => ~SomeOverrideDeny))

\* UPDATE is granted by the exact entry but is not among the allowed actions
C8_Witness ==
    /\ Done
    /\ StageInEffect
    /\ ReqAction = "UPDATE"
    /\ LET selected == SelectedEntry
       IN  /\ selected # 0
           /\ selected = EntryAt(ReqPath)
           /\ HasStageRule(selected)
           /\ StageRule(selected).allowedActions = Some(<<"READ">>)
           /\ Grants(selected, ReqAction)
    /\ result = FALSE

\* C9: during hierarchical fallback, once some ancestor grants the action,
\* hasPermission returns false if any override entry lacking the action has a
\* path that starts, as a raw string, with the requested path, whichever
\* ancestor granted.
C9_OverrideDenyLiteralPrefix ==
    (/\ Done
     /\ EntryAt(ReqPath) = 0
     /\ SomeOverrideDeny
     /\ GrantingLevels # {})
    => result = FALSE

\* request /orders/form, granted by /orders, denied by the override /orders/form-x
C9_Witness ==
    /\ Done
    /\ ReqPath = EntryPaths[2]
    /\ EntryAt(ReqPath) = 0
    /\ Grants(EntryAt(EntryPaths[1]), ReqAction)
    /\ EntryAt(EntryPaths[3]) # 0
    /\ OverrideDenyEntry(EntryAt(EntryPaths[3]))
    /\ result = FALSE

\* C10: if hasPermission returns true with a stage supplied, it returns true
\* for the same list, path and action with no stage supplied.
C10_StagesOnlyNarrow ==
    (Done /\ StageInEffect /\ result = TRUE)
    => hasPermission(userPermissions,
                     [resourcePath |-> ReqPath, action |-> ReqAction,
                      workflowStage |-> None], None) = TRUE

\* a call allowed under a stage for which the selected entry has a rule
C10_Witness ==
    /\ Done
    /\ StageInEffect
    /\ result = TRUE
    /\ LET selected == SelectedEntry
       IN  selected # 0 /\ HasStageRule(selected)

-----------------------------------------------------------------------------
(* Properties of the compiler *)

\* row j belongs to the active role, is active and is within its validity
\* window at the time of compilation
RowInForce(j) ==
    /\ currentUserRoleId # None
    /\ permissionMatrix[j].RoleId = currentUserRoleId[1]
    /\ permissionMatrix[j].IsActive
    /\ (permissionMatrix[j].ValidFrom = None \/ permissionMatrix[j].ValidFrom[1] <= now)
    /\ (permissionMatrix[j].ValidTo = None \/ permissionMatrix[j].ValidTo[1] >= now)

\* the rows in force of one resource, in matrix order
RowsInForce(resourceId) ==
    {j \in 1..Len(permissionMatrix) :
        RowInForce(j) /\ permissionMatrix[j].ResourceId = resourceId}

\* C11: a compiled entry exists for a resource only if some row of the active
\* role for that resource is active and within its validity window at compile
\* time, and the entry carries that resource's path.
C11_EntryOnlyIfRowInForce ==
    Done =>
        \A k \in 1..Len(userPermissions) :
            /\ RowsInForce(userPermissions[k].resourceId) # {}
            /\ \E n \in 1..Len(resources) :
                  /\ resources[n].ResourceId = userPermissions[k].resourceId
                  /\ resources[n].ResourcePath = userPermissions[k].resourcePath

\* resource 1 has only a row outside its window, resource 2 a row in force:
\* the index holds the entry of resource 2 alone
C11_Witness ==
    /\ Done
    /\ Len(permissionMatrix) = 2
    /\ permissionMatrix[1].ResourceId = 1
    /\ permissionMatrix[1].IsActive
    /\ permissionMatrix[1].RoleId = 1
    /\ RowsInForce(1) = {}
    /\ RowsInForce(2) = {2}
    /\ Len(userPermissions) = 1
    /\ userPermissions[1].resourceId = 2

\* the rows the compiler groups under one resource: the active rows of the
\* active role, valid or not
GroupRows(resourceId) ==
    {j \in 1..Len(permissionMatrix) :
        /\ currentUserRoleId # None
        /\ permissionMatrix[j].RoleId = currentUserRoleId[1]
        /\ permissionMatrix[j].IsActive
        /\ permissionMatrix[j].ResourceId = resourceId}

\* the first row in force of a resource, in matrix order
FirstRowInForce(resourceId) ==
    LET rows == RowsInForce(resourceId)
    IN  permissionMatrix[CHOOSE j \in rows : \A i \in rows : j <= i]

\* the row carries metadata text (undefined and '' carry none)
CarriesMetadata(row) == row.Metadata # None /\ row.Metadata[1] # ""

KnownResourceIds == {resources[n].ResourceId : n \in 1..Len(resources)}

ArrayToSet(arr) == {arr[n] : n \in 1..Len(arr)}

\* C12: a compiled entry takes isOverride, metadata, validFrom and validTo from
\* the first row of its group that is in force (earlier rows outside their
\* window are passed over), and its actions from all the rows of the group.
C12_FirstValidRowWins ==
    (Done /\ ~threw) =>
        \A k \in 1..Len(userPermissions) :
            LET entry == userPermissions[k]
                group == GroupRows(entry.resourceId)
            IN  /\ RowsInForce(entry.resourceId) # {}
                /\ LET first == FirstRowInForce(entry.resourceId)
                   IN  /\ entry.isOverride = first.IsOverride
                       /\ entry.validFrom = first.ValidFrom
                       /\ entry.validTo = first.ValidTo
                       /\ entry.metadata =
                             IF CarriesMetadata(first)
                             THEN Some(JsonParse(first.Metadata[1]).value)
                             ELSE None
                /\ ArrayToSet(entry.actions) =
                     {RowActionName(permissionMatrix[j]) : j \in group} \ {""}

\* an expired override row with restrictions comes first, a plain row in force
\* second: the entry is plain, and holds the actions of both rows
C12_Witness ==
    /\ Done
    /\ ~threw
    /\ Len(permissionMatrix) = 2
    /\ permissionMatrix[1] =
          MatrixRow(1, 1, 1, TRUE, [ValidFrom |-> None, ValidTo |-> Some(now - 1)],
                    TRUE, Some(DraftRestrictsRead))
    /\ permissionMatrix[2] =
          MatrixRow(1, 1, 2, TRUE, [ValidFrom |-> None, ValidTo |-> None], FALSE, None)
    /\ Len(userPermissions) = 1
    /\ userPermissions[1].isOverride = FALSE
    /\ userPermissions[1].metadata = None
    /\ userPermissions[1].actions = <<"READ", "UPDATE">>

\* the first row in force of a resource of the table carries text that
\* JSON.parse rejects
MalformedGroup(resourceId) ==
    /\ resourceId \in KnownResourceIds
    /\ RowsInForce(resourceId) # {}
    /\ CarriesMetadata(FirstRowInForce(resourceId))
    /\ ~JsonParse(FirstRowInForce(resourceId).Metadata[1]).ok

\* C14: when the first row in force of a group carries metadata text that
\* cannot be parsed the compilation fails, and no entry is ever returned
\* whose metadata is absent although that row carries metadata text.
C14_MalformedMetadataFails ==
    Done =>
        /\ \A r \in KnownResourceIds : MalformedGroup(r) => threw
        /\ threw => userPermissions = <<>>
        /\ \A k \in 1..Len(userPermissions) :
              (/\ RowsInForce(userPermissions[k].resourceId) # {}
               /\ CarriesMetadata(FirstRowInForce(userPermissions[k].resourceId)))
              => userPermissions[k].metadata # None

\* resource 2 has a plain row, resource 1 a row with malformed metadata
C14_Witness ==
    /\ Done
    /\ threw
    /\ Len(permissionMatrix) = 2
    /\ permissionMatrix[1].ResourceId = 2
    /\ MalformedGroup(1)

\* the matrix without the rows whose ResourceId is not in the resources table
KnownResourceRows ==
    SelectSeq(permissionMatrix, LAMBDA p : p.ResourceId \in KnownResourceIds)

\* C15: rows of a resource that is not in the resources table yield no entry
\* and no failure, a row whose ActionId is not in the actions table yields no
\* action name and no failure, and the rest of the index is what it would be
\* without them.
C15_DanglingIdsSkipped ==
    Done =>
        /\ threw => \E r \in KnownResourceIds : MalformedGroup(r)
        /\ \A k \in 1..Len(userPermissions) :
              LET entry == userPermissions[k]
                  named == {j \in GroupRows(entry.resourceId) :
                                RowActionName(permissionMatrix[j]) # ""}
              IN  /\ entry.resourceId \in KnownResourceIds
                  /\ Len(entry.actions) = Cardinality(named)
                  /\ ArrayToSet(entry.actions) =
                       {RowActionName(permissionMatrix[j]) : j \in named}
        /\ ~threw =>
              userPermissions =
                transformToUserPermissions(KnownResourceRows, resources, actions,
                                           currentUserRoleId, now).value

\* a row of an unknown resource (its metadata malformed), then a row of
\* resource 1 whose ActionId is unknown: one entry, for resource 1, no action
C15_Witness ==
    /\ Done
    /\ ~threw
    /\ Len(permissionMatrix) = 2
    /\ permissionMatrix[1].ResourceId \notin KnownResourceIds
    /\ permissionMatrix[1].Metadata = Some(Malformed)
    /\ permissionMatrix[2].ResourceId = 1
    /\ \A n \in 1..Len(actions) : actions[n].ActionId # permissionMatrix[2].ActionId
    /\ Len(userPermissions) = 1
    /\ userPermissions[1].resourceId = 1
    /\ userPermissions[1].actions = <<>>

-----------------------------------------------------------------------------
(* Properties of the evaluator, continued *)

\* entry k contains the requested action and sits at the requested path or at
\* '/' joined with a leading run of its non-empty segments
GrantingEntry(k) ==
    /\ Includes(userPermissions[k].actions, ReqAction)
    /\ \/ userPermissions[k].resourcePath = ReqPath
       \/ \E i \in AncestorLevels :
             userPermissions[k].resourcePath = ParentPath(ReqSegments, i)

\* C17: hasPermission returns true only if some entry at the requested path or
\* at one of its ancestor paths contains the action; an action that no entry
\* contains is denied.
C17_NoAllowWithoutGrantingEntry ==
    Done =>
        /\ result => \E k \in 1..Len(userPermissions) : GrantingEntry(k)
        /\ (\A k \in 1..Len(userPermissions) :
                ~Includes(userPermissions[k].actions, ReqAction)) => ~result

\* the field is allowed through the page's entry, two levels up, past a
\* section entry that lacks the action
C17_Witness ==
    /\ Done
    /\ result
    /\ ReqPath = EntryPaths[4]
    /\ EntryAt(EntryPaths[4]) = 0
    /\ EntryAt(EntryPaths[2]) # 0
    /\ ~Grants(EntryAt(EntryPaths[2]), ReqAction)
    /\ GrantingEntry(EntryAt(EntryPaths[1]))

\* C16: every call of hasPermission returns a boolean; none raises an error.
C16_Total ==
    Done => (~threw /\ result \in BOOLEAN)

-----------------------------------------------------------------------------
(* Properties of the callers *)

\* the stage the caller gave explicitly: params.workflowStage, or the custom
\* stage argument of the hook
ExplicitStage == request.workflowStage

\* a stage is given explicitly (a stage is a non-empty string)
StageGiven == ExplicitStage # None /\ ExplicitStage[1] # ""

\* the rules of entry k for the stage deny the requested action
DenyingRule(k, stage) ==
    /\ stage # None
    /\ stage[1] # ""
    /\ userPermissions[k].metadata # None
    /\ userPermissions[k].metadata[1].workflowRestrictions # None
    /\ stage[1] \in DOMAIN userPermissions[k].metadata[1].workflowRestrictions[1]
    /\ LET rule == userPermissions[k].metadata[1].workflowRestrictions[1][stage[1]]
       IN  \/ OptIncludes(rule.restrictedActions, ReqAction)
           \/ /\ rule.allowedActions # None
              /\ ~Includes(rule.allowedActions[1], ReqAction)

\* C18: when a stage is given explicitly (params.workflowStage of hasPermission,
\* the custom stage of checkPermission, checkEnabled, checkVisibility) the
\* decision is made with it and the store's stage plays no part; the store's
\* stage is used when none is given.
C18_ExplicitStagePrecedence ==
    Done =>
        /\ request.ambientStage = stateWorkflowStage
        /\ StageGiven =>
              result = hasPermission(userPermissions,
                           [resourcePath |-> ReqPath, action |-> ReqAction,
                            workflowStage |-> ExplicitStage], None)
        /\ LET k == EntryAt(ReqPath)
           IN  (k # 0 /\ ~userPermissions[k].isOverride /\ Grants(k, ReqAction)) =>
                  result = ~DenyingRule(k, IF StageGiven THEN ExplicitStage
                                           ELSE stateWorkflowStage)

\* the store is in the draft stage, where the entry restricts READ; the call
\* names the approved stage and READ is allowed
C18_Witness ==
    /\ Done
    /\ rendered = NotRendered
    /\ ExplicitStage = Some("approved")
    /\ stateWorkflowStage = Some("draft")
    /\ ReqAction = "READ"
    /\ EntryAt(ReqPath) # 0
    /\ Grants(EntryAt(ReqPath), "READ")
    /\ ~userPermissions[EntryAt(ReqPath)].isOverride
    /\ DenyingRule(EntryAt(ReqPath), Some("draft"))
    /\ result

\* RBACGuard has rendered
GuardRendered == Done /\ rendered.output # "none"

\* C20: RBACGuard renders its children as they are exactly when
\* hasPermission(userPermissions, {resourcePath, action}, state.workflowStage)
\* is true; when it is false it renders the fallback or nothing if
\* hideOnDenied is set, else the children in a non-interactive wrapper if
\* disableOnDenied is set, else the fallback or nothing.
C20_GuardRendering ==
    GuardRendered =>
        LET hasAccess == hasPermission(userPermissions,
                             [resourcePath |-> ReqPath, action |-> ReqAction,
                              workflowStage |-> None], stateWorkflowStage)
            fallbackOrNothing == IF rendered.fallback # None THEN "fallback" ELSE "null"
        IN  /\ (rendered.output = "children") <=> hasAccess
            /\ ~hasAccess =>
                  rendered.output =
                    IF rendered.hideOnDenied THEN fallbackOrNothing
                    ELSE IF rendered.disableOnDenied THEN "disabled"
                    ELSE fallbackOrNothing

\* access is denied by the draft rule, both flags are set and there is no
\* fallback: nothing is rendered
C20_Witness ==
    /\ GuardRendered
    /\ ~result
    /\ stateWorkflowStage = Some("draft")
    /\ EntryAt(ReqPath) # 0
    /\ Grants(EntryAt(ReqPath), ReqAction)
    /\ rendered.hideOnDenied
    /\ rendered.disableOnDenied
    /\ rendered.fallback = None
    /\ rendered.output = "null"

-----------------------------------------------------------------------------
(* Properties of the slice *)

\* the compilation of what the store holds now
CompiledNow ==
    transformToUserPermissions(permissionMatrix, resources, actions,
                               currentUserRoleId, now)

\* C13: without an active role transformToUserPermissions returns the empty
\* list whatever the rows are, and in every state of the store where
\* currentUserRoleId is undefined userPermissions is empty, so every check
\* is denied.
C13_NoRoleNoPermissions ==
    /\ \A matrix \in ServerMatrices :
          transformToUserPermissions(matrix, resources, actions, None, now)
            = [threw |-> FALSE, value |-> <<>>]
    /\ currentUserRoleId = None =>
          /\ userPermissions = <<>>
          /\ \A p \in ViewPaths, a \in ActionNames :
                ~hasPermission(userPermissions,
                               [resourcePath |-> p, action |-> a, workflowStage |-> None],
                               stateWorkflowStage)

\* a permission fetch has completed, with rows and with the lookup tables
\* loaded, before any role was set
C13_Witness ==
    /\ pc = "fetchPermissionMatrix.fulfilled"
    /\ currentUserRoleId = None
    /\ permissionMatrix # <<>>
    /\ resources # <<>>
    /\ actions # <<>>
    /\ userPermissions = <<>>

\* C19: right after setCurrentUserRole, fetchPermissionMatrix.fulfilled and
\* fetchSimpleDemoPermissions.fulfilled the index is the compilation of the
\* store's matrix, resources, actions and role: the matrix is the payload,
\* the role the one just set, and nothing of the previous index remains.
C19_FullRebuild ==
    (/\ pc \in {"setCurrentUserRole", "fetchPermissionMatrix.fulfilled",
                "fetchSimpleDemoPermissions.fulfilled"}
     /\ ~threw)
    => /\ ~CompiledNow.threw
       /\ userPermissions = CompiledNow.value

\* the role was switched from 1 to 2 with the two-role matrix loaded: the
\* index holds the entry of role 2 and nothing of role 1
C19_Witness ==
    /\ pc = "setCurrentUserRole"
    /\ ~threw
    /\ currentUserRoleId = Some(2)
    /\ Len(permissionMatrix) = 2
    /\ permissionMatrix[1].RoleId = 1
    /\ permissionMatrix[2].RoleId = 2
    /\ resources # <<>>
    /\ actions # <<>>
    /\ Len(userPermissions) = 1
    /\ userPermissions[1].actions = <<"UPDATE">>
    /\ userPermissions[1].isOverride

-----------------------------------------------------------------------------
(* The workflow helpers, src/utils/rbacUtils.ts *)

\* getWorkflowRestrictions: the rules of a stage held by the entry at the path
\* itself, null when there is no entry, no metadata or no rule for the stage
getWorkflowRestrictions(perms, resourcePath, workflowStage) ==
    LET k == FindByPath(perms, resourcePath)
    IN  IF k = 0 THEN None
        ELSE IF perms[k].metadata = None THEN None
        ELSE IF perms[k].metadata[1].workflowRestrictions = None THEN None
        ELSE IF workflowStage \in DOMAIN perms[k].metadata[1].workflowRestrictions[1]
        THEN Some(perms[k].metadata[1].workflowRestrictions[1][workflowStage])
        ELSE None

\* isActionRestrictedInWorkflow; workflowStage is optional
isActionRestrictedInWorkflow(perms, resourcePath, action, workflowStage) ==
    IF ~Truthy(workflowStage) THEN FALSE
    ELSE LET restrictions == getWorkflowRestrictions(perms, resourcePath,
                                                     workflowStage[1])
         IN  IF restrictions = None THEN FALSE
             ELSE IF OptIncludes(restrictions[1].restrictedActions, action) THEN TRUE
             ELSE IF /\ TruthyValue(restrictions[1].allowedActions)
                     /\ ~Includes(restrictions[1].allowedActions[1], action) THEN TRUE
             ELSE FALSE

-----------------------------------------------------------------------------
(* The evaluator on a chain of resources: a page, its section, a field of the
   section.  Entries sit on any of the three, with or without rules for the
   draft stage; the field, its ancestors and a path written with a doubled
   slash are requested. *)

\* "/orders", "/orders/form", "/orders/form/amount"
WalkPaths == <<EntryPaths[1], EntryPaths[2], EntryPaths[4]>>

\* no rules; READ restricted in draft; only UPDATE allowed in draft
WalkMetadatas ==
    {None,
     StageMetadata("draft", Restriction(Some(<<"READ">>), None)),
     StageMetadata("draft", Restriction(None, Some(<<"UPDATE">>)))}

WalkEntryVariants ==
    {[actions |-> a, isOverride |-> o, metadata |-> m] :
        a \in {<<>>, <<"READ">>}, o \in BOOLEAN, m \in WalkMetadatas}

WalkChoices ==
    {c \in [1..Len(WalkPaths) -> {None} \cup {Some(v) : v \in WalkEntryVariants}] :
        Cardinality({k \in 1..Len(WalkPaths) : c[k] # None}) <= MaxPerms}

\* the list of the chosen entries, in the order of WalkPaths
RECURSIVE WalkListFrom(_, _)
WalkListFrom(c, k) ==
    IF k > Len(WalkPaths) THEN <<>>
    ELSE (IF c[k] = None THEN <<>>
          ELSE <<UserPermission(WalkPaths[k], c[k][1].actions, c[k][1].isOverride,
                                c[k][1].metadata)>>)
         \o WalkListFrom(c, k + 1)

WalkPermLists == {WalkListFrom(c, 1) : c \in WalkChoices}

\* the three paths of the chain and "/orders//form"
WalkRequestPaths ==
    {WalkPaths[k] : k \in 1..Len(WalkPaths)} \cup {<<"/", "a", "/", "/", "a">>}

WalkRequests ==
    {Request(p, a, sp[1], sp[2]) :
        p \in WalkRequestPaths, a \in ActionNames, sp \in StagePairs}

InitWalk ==
    /\ StoreIdle
    /\ userPermissions \in WalkPermLists
    /\ request = Idle
    /\ result = FALSE
    /\ threw = FALSE
    /\ pc = "input"

EvaluateChain == pc = "input" /\ \E r \in WalkRequests : Evaluate(r)

NextWalk == EvaluateChain

SpecWalk == InitWalk /\ [][NextWalk]_vars

-----------------------------------------------------------------------------
(* Properties of the hierarchical walk *)

\* C21: without an exact entry, the walk decides on the nearest ancestor entry
\* whose action set contains the action, passing over ancestor entries that
\* lack it: the call is denied when no ancestor at any level has the action,
\* and otherwise the result is the decision taken on that nearest granting
\* ancestor (no denying override, not filtered by its stage rules).
C21_NearestGrantingAncestorDecides ==
    (Done /\ EntryAt(ReqPath) = 0) =>
        LET levels == GrantingLevels
        IN  /\ levels = {} => result = FALSE
            /\ levels # {} =>
                  result = (/\ ~SomeOverrideDeny
                            /\ ~DenyingRule(MatchedAncestor, ReqStage))

\* the field is requested; the section's entry lacks the action and is passed
\* over; the page's entry has it and the call is allowed
C21_Witness ==
    /\ Done
    /\ ReqPath = WalkPaths[3]
    /\ EntryAt(WalkPaths[3]) = 0
    /\ EntryAt(WalkPaths[2]) # 0
    /\ ~Grants(EntryAt(WalkPaths[2]), ReqAction)
    /\ Grants(EntryAt(WalkPaths[1]), ReqAction)
    /\ MatchedAncestor = EntryAt(WalkPaths[1])
    /\ result = TRUE

\* C22: when the nearest ancestor entry containing the action is filtered out
\* by its rules for the stage in effect, hasPermission returns false, whatever
\* the shallower ancestors hold.
C22_FilteredInheritedGrantIsFinal ==
    (/\ Done
     /\ EntryAt(ReqPath) = 0
     /\ MatchedAncestor # 0
     /\ DenyingRule(MatchedAncestor, ReqStage))
    => result = FALSE

\* the field is requested in the draft stage; the section has the action and
\* restricts it in draft, the page has it and carries no rule; no override
\* entry denies: the call is denied
C22_Witness ==
    /\ Done
    /\ ReqPath = WalkPaths[3]
    /\ EntryAt(WalkPaths[3]) = 0
    /\ MatchedAncestor # 0
    /\ MatchedAncestor = EntryAt(WalkPaths[2])
    /\ DenyingRule(MatchedAncestor, ReqStage)
    /\ Grants(EntryAt(WalkPaths[1]), ReqAction)
    /\ userPermissions[EntryAt(WalkPaths[1])].metadata = None
    /\ ~SomeOverrideDeny
    /\ result = FALSE

-----------------------------------------------------------------------------
(* The compiler applied to resource tables of several shapes *)

\* the page and its section; two resources sharing the page's path; resource 1
\* listed twice, under two paths; no resources
ResourceTables ==
    { ResourceTable,
      <<Resource(1, EntryPaths[1], 0), Resource(2, EntryPaths[1], 0)>>,
      <<Resource(1, EntryPaths[1], 0), Resource(1, EntryPaths[2], 1)>>,
      << >> }

InitTables ==
    /\ \E n \in 0..MaxRows : permissionMatrix \in [1..n -> MatrixRows]
    /\ resources \in ResourceTables
    /\ actions = ActionTable
    /\ currentUserRoleId = Some(1)
    /\ now = CompileTime
    /\ userPermissions = <<>>
    /\ request = Idle
    /\ result = FALSE
    /\ threw = FALSE
    /\ pc = "input"
    /\ roles = <<>>
    /\ stateWorkflowStage = None
    /\ isLoading = FALSE
    /\ error = None
    /\ Quiet

NextTables == Compile

SpecTables == InitTables /\ [][NextTables]_vars

\* no two resources of the table share a path
UniqueResourcePaths ==
    \A i, j \in 1..Len(resources) :
        i # j => resources[i].ResourcePath # resources[j].ResourcePath

\* C24: the compiled list never holds two entries with the same resourceId,
\* and when the paths of the resources table are unique it never holds two
\* entries with the same resourcePath.
C24_OneEntryPerResource ==
    Done =>
        /\ \A j, k \in 1..Len(userPermissions) :
              j # k => userPermissions[j].resourceId # userPermissions[k].resourceId
        /\ UniqueResourcePaths =>
              \A j, k \in 1..Len(userPermissions) :
                 j # k =>
                    userPermissions[j].resourcePath # userPermissions[k].resourcePath

\* two rows of the role, both in force, on the same resource: one entry
C24_Witness ==
    /\ Done
    /\ Len(permissionMatrix) = 2
    /\ \A j \in 1..2 :
          /\ permissionMatrix[j].RoleId = 1
          /\ permissionMatrix[j].IsActive
          /\ IsValidAt(permissionMatrix[j], now)
    /\ permissionMatrix[1].ResourceId = permissionMatrix[2].ResourceId
    /\ UniqueResourcePaths
    /\ Len(userPermissions) = 1
    /\ userPermissions[1].resourceId = permissionMatrix[1].ResourceId

-----------------------------------------------------------------------------
(* Properties of the store under interleaved dispatches *)

\* the rows of the store's matrix that belong to the current role and to the
\* resource of entry k
RoleRowsOf(k) ==
    {j \in 1..Len(permissionMatrix) :
        /\ currentUserRoleId # None
        /\ permissionMatrix[j].RoleId = currentUserRoleId[1]
        /\ permissionMatrix[j].IsActive
        /\ permissionMatrix[j].ResourceId = userPermissions[k].resourceId}

\* the action name the actions table gives a row
TableActionName(row) ==
    LET action == ActionMapGet(ActionTable, row.ActionId)
    IN  IF action = None THEN "" ELSE action[1].Action

\* C25: in every state of the store, whatever the order of setCurrentUserRole
\* dispatches and of completions of permission fetches, every entry of
\* userPermissions comes from rows of the current role alone: a role is set,
\* each action name of the entry is that of a row of the current role on the
\* entry's resource, and so is its override flag.
C25_RoleIsolation ==
    \A k \in 1..Len(userPermissions) :
        /\ currentUserRoleId # None
        /\ RoleRowsOf(k) # {}
        /\ \A n \in 1..Len(userPermissions[k].actions) :
              \E j \in RoleRowsOf(k) :
                 TableActionName(permissionMatrix[j]) = userPermissions[k].actions[n]
        /\ \E j \in RoleRowsOf(k) :
              permissionMatrix[j].IsOverride = userPermissions[k].isOverride

\* a permission fetch completes while role 2 is current and delivers rows of
\* roles 1 and 2: the index holds the entry of role 2 alone
C25_Witness ==
    /\ pc \in {"fetchPermissionMatrix.fulfilled", "fetchSimpleDemoPermissions.fulfilled"}
    /\ ~threw
    /\ currentUserRoleId = Some(2)
    /\ \E j \in 1..Len(permissionMatrix) : permissionMatrix[j].RoleId = 1
    /\ Len(userPermissions) = 1
    /\ userPermissions[1].actions = <<"UPDATE">>

-----------------------------------------------------------------------------
(* Bootstrap and role changes.  RBACBootstrap dispatches one of the two
   initialization thunks on mount; the demo pages' handleRoleChange dispatches
   setCurrentUserRole(roleId) and then fetchSimpleDemoPermissions(roleId).
   The demo API resolves from static data, so a demo thunk and the
   continuation of an awaited dispatch finish before any other event is
   handled; the responses of the network API arrive in any order.  An
   initialization thunk stays in inflight until it returns; argument 0 stands
   for an undefined userId or roleId. *)

\* getSimpleDemoPermissionMatrix(roleId): the rows stored for that role
RoleMatrix(roleId) ==
    IF roleId = 1
    THEN << MatrixRow(1, 1, 1, TRUE, NoWindow, FALSE, None) >>
    ELSE << MatrixRow(2, 1, 2, TRUE, NoWindow, FALSE, None),
            MatrixRow(2, 2, 1, TRUE, NoWindow, FALSE, None) >>

\* getPermissionMatrix(userId): the rows the server, or the fallback, gives
\* for that user
UserMatrix(userId) ==
    IF userId = 1
    THEN << MatrixRow(1, 1, 1, TRUE, NoWindow, FALSE, None),
            MatrixRow(1, 1, 2, TRUE, NoWindow, FALSE, None) >>
    ELSE << MatrixRow(2, 1, 1, TRUE, NoWindow, FALSE, None) >>

\* the arguments RBACBootstrap passes: undefined, or the default role id
BootArgs == {0} \cup RoleIds

LookupThunks == {Thunk(t, 0) : t \in {"fetchRoles", "fetchResources", "fetchActions"}}

DemoThunks == {"fetchSimpleDemoData", "fetchSimpleDemoPermissions"}

\* Variant: Promise.all waits for fetchRoles only
LookupsSettledRolesOnly == Thunk("fetchRoles", 0) \notin inflight

\* await Promise.all([...]) of initializeRBACWithApi has returned
LookupsSettled == inflight \cap LookupThunks = {}

\* initializeRBACWithApi is past its first await and has not gone on
AwaitingApi(t) ==
    /\ t.type = "initializeRBACWithApi"
    /\ LookupsSettled
    /\ Thunk("fetchPermissionMatrix", t.arg) \notin inflight

\* initializeRBACWithDemo is past its first await and has not gone on
AwaitingDemo(t) ==
    /\ t.type = "initializeRBACWithDemo"
    /\ Thunk("fetchSimpleDemoData", 0) \notin inflight
    /\ Thunk("fetchSimpleDemoPermissions", t.arg) \notin inflight

\* work that finishes before the next event is handled
Busy ==
    \/ \E t \in inflight : t.type \in DemoThunks
    \/ \E t \in inflight : AwaitingApi(t) \/ AwaitingDemo(t)

\* setCurrentUserRole(roleId) followed by the pending action of fetch
RoleThenFetch(roleId, fetch, done) ==
    LET compiled == transformToUserPermissions(permissionMatrix, resources, actions,
                                               Some(roleId), now)
    IN  /\ threw' = compiled.threw
        /\ IF compiled.threw
           THEN /\ inflight' = inflight \ done
                /\ UNCHANGED <<currentUserRoleId, userPermissions, isLoading, error>>
           ELSE /\ currentUserRoleId' = Some(roleId)
                /\ userPermissions' = compiled.value
                /\ inflight' = inflight \cup {fetch}
                /\ isLoading' = TRUE
                /\ error' = None
        /\ UNCHANGED <<roles, permissionMatrix, resources, actions, stateWorkflowStage,
                       now, calls>>

\* the thunk returns without another dispatch
Return(t) ==
    /\ inflight' = inflight \ {t}
    /\ threw' = FALSE
    /\ UNCHANGED <<roles, permissionMatrix, resources, actions, currentUserRoleId,
                   userPermissions, stateWorkflowStage, isLoading, error, now, calls>>

\* initializeRBACWithApi(userId), up to its first await: the three lookup
\* thunks are dispatched
InitializeRBACWithApi(userId) ==
    /\ pc = "init"
    /\ inflight' = inflight \cup {Thunk("initializeRBACWithApi", userId)} \cup LookupThunks
    /\ pc' = "initializeRBACWithApi"
    /\ threw' = FALSE
    /\ UNCHANGED <<roles, permissionMatrix, resources, actions, currentUserRoleId,
                   userPermissions, stateWorkflowStage, isLoading, error, now, calls>>

\* initializeRBACWithApi after Promise.all: with a numeric userId the role is
\* set and the matrix fetch dispatched
ContinueWithApi ==
    \E t \in inflight :
        /\ AwaitingApi(t)
        /\ pc' = "initializeRBACWithApi.continue"
        /\ IF t.arg = 0 THEN Return(t)
           ELSE RoleThenFetch(t.arg, Thunk("fetchPermissionMatrix", t.arg), {t})

\* the response of getPermissionMatrix arrives; the thunk that awaited it returns
ApiMatrixFulfilled ==
    /\ ~Busy
    /\ \E t \in inflight :
          /\ t.type = "fetchPermissionMatrix"
          /\ inflight' = inflight \ {t, Thunk("initializeRBACWithApi", t.arg)}
          /\ LoadMatrix("fetchPermissionMatrix.fulfilled", UserMatrix(t.arg))

\* initializeRBACWithDemo(roleId), up to its first await: fetchSimpleDemoData
\* is dispatched
InitializeRBACWithDemo(roleId) ==
    /\ pc = "init"
    /\ inflight' = inflight \cup {Thunk("initializeRBACWithDemo", roleId),
                                  Thunk("fetchSimpleDemoData", 0)}
    /\ isLoading' = TRUE
    /\ error' = None
    /\ pc' = "initializeRBACWithDemo"
    /\ threw' = FALSE
    /\ UNCHANGED <<roles, permissionMatrix, resources, actions, currentUserRoleId,
                   userPermissions, stateWorkflowStage, now, calls>>

\* initializeRBACWithDemo after fetchSimpleDemoData: with a numeric roleId the
\* role is set and the demo permissions fetched
ContinueWithDemo ==
    \E t \in inflight :
        /\ AwaitingDemo(t)
        /\ pc' = "initializeRBACWithDemo.continue"
        /\ IF t.arg = 0 THEN Return(t)
           ELSE RoleThenFetch(t.arg, Thunk("fetchSimpleDemoPermissions", t.arg), {t})

\* handleRoleChange(roleId) of the demo pages, which list the roles of the store
HandleRoleChange(roleId) ==
    /\ ~Busy
    /\ roles # <<>>
    /\ pc' = "handleRoleChange"
    /\ RoleThenFetch(roleId, Thunk("fetchSimpleDemoPermissions", roleId), {})

\* getSimpleDemoPermissionMatrix resolves; the thunk that awaited it returns
DemoPermissionsFulfilled ==
    \E t \in inflight :
        /\ t.type = "fetchSimpleDemoPermissions"
        /\ inflight' = inflight \ {t, Thunk("initializeRBACWithDemo", t.arg)}
        /\ LoadMatrix("fetchSimpleDemoPermissions.fulfilled", RoleMatrix(t.arg))

NextBoot ==
    \/ \E userId \in BootArgs : InitializeRBACWithApi(userId)
    \/ \E roleId \in BootArgs : InitializeRBACWithDemo(roleId)
    \/ ~Busy /\ FetchRolesFulfilled
    \/ ~Busy /\ FetchResourcesFulfilled
    \/ ~Busy /\ FetchActionsFulfilled
    \/ ContinueWithApi
    \/ ApiMatrixFulfilled
    \/ FetchSimpleDemoDataFulfilled
    \/ ContinueWithDemo
    \/ DemoPermissionsFulfilled
    \/ \E roleId \in RoleIds : HandleRoleChange(roleId)
    \/ ~Busy /\ Tick

SpecBoot == InitStore /\ [][NextBoot]_vars

\* the last fetch of the role changes has just completed
RoleChangesComplete ==
    /\ inflight = {}
    /\ currentUserRoleId # None
    /\ pc \in {"fetchPermissionMatrix.fulfilled", "fetchSimpleDemoPermissions.fulfilled"}

-----------------------------------------------------------------------------
(* The order of the dispatches inside the two initialization thunks *)

PermissionFetches(thunks) ==
    {t \in thunks : t.type \in {"fetchPermissionMatrix", "fetchSimpleDemoPermissions"}}

\* the step is the second half of an initialization thunk
BootContinues ==
    pc' \in {"initializeRBACWithApi.continue", "initializeRBACWithDemo.continue"}

\* the initialization thunks whose permission fetch completes in the step
BootsCompleted ==
    {t \in inflight : /\ t.type \in {"initializeRBACWithApi", "initializeRBACWithDemo"}
                      /\ t \notin inflight'
                      /\ PermissionFetches(inflight) \ inflight' # {}}

\* a permission fetch dispatched by an initialization thunk finds every lookup
\* fetch settled, the tables loaded and the role already applied; without a
\* numeric id the thunk sets no role and dispatches no fetch; the fetched
\* matrix is compiled against the loaded tables, for the role of the thunk
\* unless another role was chosen meanwhile
InitializationStep ==
    /\ BootContinues =>
          \A t \in PermissionFetches(inflight') \ inflight :
              /\ inflight \cap (LookupThunks \cup {Thunk("fetchSimpleDemoData", 0)}) = {}
              /\ roles = RoleTable /\ resources = ResourceTable /\ actions = ActionTable
              /\ currentUserRoleId' = Some(t.arg)
              /\ userPermissions' =
                    transformToUserPermissions(permissionMatrix, resources, actions,
                                               Some(t.arg), now).value
    /\ (BootContinues /\ \E t \in inflight \ inflight' : t.arg = 0) =>
          /\ currentUserRoleId' = currentUserRoleId
          /\ PermissionFetches(inflight') \subseteq inflight
    /\ \A t \in BootsCompleted :
          /\ resources' = ResourceTable /\ actions' = ActionTable
          /\ permissionMatrix' \in {UserMatrix(t.arg), RoleMatrix(t.arg)}
          /\ userPermissions' =
                transformToUserPermissions(permissionMatrix', ResourceTable, ActionTable,
                                           currentUserRoleId', now).value
          /\ currentUserRoleId = Some(t.arg) =>
                \E k \in 1..Len(userPermissions') : userPermissions'[k].actions # <<>>

\* C28: in initializeRBACWithApi and initializeRBACWithDemo the permission
\* fetch is dispatched only after the lookup fetches have all settled and
\* after setCurrentUserRole has been applied, so the matrix is compiled
\* against loaded tables and the chosen role; without a numeric id no role is
\* set and no permission fetch is dispatched.
C28_InitializationOrdering == [][InitializationStep]_vars

\* initializeRBACWithApi(1) has run to its end: the matrix of role 1 is
\* stored and compiled for role 1 against the loaded tables
C28_Witness ==
    /\ pc = "fetchPermissionMatrix.fulfilled"
    /\ inflight = {}
    /\ currentUserRoleId = Some(1)
    /\ permissionMatrix = UserMatrix(1)
    /\ resources = ResourceTable
    /\ actions = ActionTable
    /\ \E k \in 1..Len(userPermissions) : userPermissions[k].actions # <<>>

-----------------------------------------------------------------------------
(* The index against the store's inputs *)

\* the compilation of the store's present inputs, at some time up to now
CompiledFromInputs ==
    {transformToUserPermissions(permissionMatrix, resources, actions,
                                currentUserRoleId, time).value :
        time \in CompileTime..now}

\* C27: in every reachable store state userPermissions is the compilation of
\* the permissionMatrix, resources, actions and currentUserRoleId the store
\* holds, including after a lookup fetch completes later than the matrix load.
C27_IndexConsistentWithInputs == userPermissions \in CompiledFromInputs

-----------------------------------------------------------------------------
(* The workflow helper against the evaluator *)

\* hasPermission(perms, {resourcePath, action}, stage): the stage is passed
\* beside the request, which carries none
StageBesideRequest == Done /\ request.workflowStage = None

\* C29: whenever isActionRestrictedInWorkflow(perms, path, action, stage)
\* returns true, hasPermission(perms, {resourcePath: path, action}, stage)
\* returns false.
C29_HelperAgreesWithEvaluator ==
    (/\ StageBesideRequest
     /\ isActionRestrictedInWorkflow(userPermissions, ReqPath, ReqAction,
                                     request.ambientStage))
        => result = FALSE

-----------------------------------------------------------------------------
(* The evaluator on the index of the store while time passes: the lookup
   tables are loaded; roles are set, matrices fetched, the clock moves and
   hasPermission is called on whatever index the store holds. *)

InitClock ==
    /\ roles = RoleTable
    /\ resources = ResourceTable
    /\ actions = ActionTable
    /\ permissionMatrix = <<>>
    /\ userPermissions = <<>>
    /\ currentUserRoleId = None
    /\ stateWorkflowStage = None
    /\ isLoading = FALSE
    /\ error = None
    /\ now = CompileTime
    /\ Quiet
    /\ request = Idle
    /\ result = FALSE
    /\ threw = FALSE
    /\ pc = "init"

\* the resources of the table, asked for without a stage
ClockRequests ==
    {Request(resources[n].ResourcePath, a, None, None) :
        n \in 1..Len(resources), a \in ActionNames}

EvaluateStored == \E r \in ClockRequests : Evaluate(r)

NextClock ==
    \/ \E roleId \in RoleIds : SetCurrentUserRole(roleId)
    \/ \E roleId \in RoleIds : Pending(Thunk("fetchPermissionMatrix", roleId))
    \/ FetchPermissionMatrixFulfilled
    \/ Tick
    \/ EvaluateStored

SpecClock == InitClock /\ [][NextClock]_vars

\* the list with every validity window erased
WithoutWindows(perms) ==
    [k \in 1..Len(perms) |-> [perms[k] EXCEPT !.validFrom = None, !.validTo = None]]

\* what the call in request asks of hasPermission
ReqParams ==
    [resourcePath |-> request.resourcePath, action |-> request.action,
     workflowStage |-> request.workflowStage]

\* the clock alone never changes the index; only setCurrentUserRole and a
\* fulfilled permission fetch write it; a call answers as it would on the
\* same entries without their windows
ValidityStep ==
    /\ now' # now => userPermissions' = userPermissions
    /\ userPermissions' # userPermissions =>
          pc' \in {"setCurrentUserRole", "fetchPermissionMatrix.fulfilled"}
    /\ (pc' = "done" /\ ~threw') =>
          result' = hasPermission(WithoutWindows(userPermissions'), ReqParams',
                                  request'.ambientStage)

\* C30: validity windows are applied only when the index is compiled:
\* hasPermission does not read validFrom or validTo, and an index compiled
\* earlier stays as it is while time passes, until setCurrentUserRole or a
\* matrix load compiles it again.
C30_WindowsOnlyAtCompileTime == [][ValidityStep]_vars

\* after the clock has passed a row's ValidTo the call is still granted,
\* although an index compiled now would refuse it
C30_Witness ==
    /\ Done
    /\ result = TRUE
    /\ now > CompileTime
    /\ ~hasPermission(transformToUserPermissions(permissionMatrix, resources, actions,
                                                 currentUserRoleId, now).value,
                      ReqParams, request.ambientStage)

====
